---- MODULE Spec2Model ----
(***************************************************************************)
(* Model of the provider orchestration core of pocketpaw:                  *)
(*   src/pocketpaw/agents/open_interpreter.py  (OpenInterpreterAgent)      *)
(*   src/pocketpaw/deep_work/planner.py        (PlannerAgent._run_prompt)  *)
(*                                                                         *)
(* One OpenInterpreterAgent instance is modelled.  run() is an async       *)
(* generator: every call c has the position of its generator (gen[c]),     *)
(* its local chunk_queue, and the run_sync worker thread it started        *)
(* (worker[c]).  Code between two awaits/yields of a coroutine runs        *)
(* without interruption by other coroutines, so it is one action.          *)
(***************************************************************************)
EXTENDS Integers, Sequences, FiniteSets, TLC

\* ---------------------------------------------------------------- bounds
MaxCalls == 2        \* run() calls made on the executor instance
MaxChunks == 1       \* content events one provider run may emit
MaxProviders == 3    \* entries of open_interpreter_provider_registry
MaxIndex == 1        \* largest initial value of _provider_rr_index
MaxKeys == 2         \* api keys of one registry entry
MaxPhaseChunks == 5  \* events the stream of one planner phase may deliver
Granularity == 3     \* arrival instants considered per wait of a planner phase
MaxLimit == 2        \* largest open_interpreter_requests_per_minute
MaxEnforce == 3      \* calls of the rate limiter in one behaviour
MaxClock == 131      \* last reading of time.monotonic(), in seconds
TickLen == 10        \* seconds between two readings of the clock
MaxResolves == 4     \* calls of _resolve_runtime_llm in one behaviour
MaxLines == 13       \* requirement lines in one task-breakdown text
MaxTasks == 3        \* tasks in one task list
MaxSchedTasks == 3   \* tasks of one project handed to the scheduler
MaxBlockers == 2     \* blocker keys of one task
MaxGuardChunks == 13 \* message chunks of one prose stream
MaxOdd == 2          \* chunks of a prose stream that differ from the repeated one
MaxJsonChars == 6    \* characters of the text of one bracket stream

\* ------------------------------------------------------ program constants
max_idle_timeouts == 10
recent_maxlen == 12
repeat_min_chunks == 8
repeat_max_distinct == 2
oi_overall_timeout_s == 900
oi_chunk_idle_timeout_s == 180
default_overall_timeout_s == 300
default_chunk_idle_timeout_s == 60
window == 60
minute == 60
max_derived == 12

Calls == 1..MaxCalls

VARIABLES
    settings,                 \* Settings: selected provider, mode, registry
    stop_flag,                \* self._stop_flag
    semaphore,                \* holder of self._semaphore (0: free)
    active_executor_future,   \* self._active_executor_future (0: None)
    provider_rr_index,        \* self._provider_rr_index
    provider_key_indices,     \* self._provider_key_indices
    pool_key_index,           \* self._groq_key_index, self._openai_key_index
    gen,                      \* position of each run() generator
    executor_future,          \* state of the future of each call's worker
    llm_cfg,                  \* configuration applied for the next provider call
    idle_timeouts,            \* local of run()
    aborted_on_idle_timeout,  \* local of run()
    chunk_queue,              \* local asyncio.Queue of each call
    worker,                   \* position of each run_sync thread
    site,                     \* which _stream_once call the worker is in
    emitted_chunks,           \* nonlocal of run_sync
    current_message,          \* run_sync holds buffered prose not yet emitted
    stop_seen,                \* the worker has found the stop flag set (line 655)
    can_failover,             \* local of run_sync
    delivered,                \* worker events yielded to the caller, in order
    observed,                 \* the calls whose worker history is recorded
    trace,                    \* enforce / chat / resolve calls of the worker, in order
    first_outcome,            \* how the first _stream_once call of the run ended
    since_event,              \* idle timeouts since the last event received
    own_events,               \* types of the events run() itself has yielded
    session_reset,            \* interpreter.reset() was called since the last worker start
    phase,                    \* PlannerAgent._run_prompt: locals and clock of one phase run
    limiter,                  \* _enforce_requests_per_minute: clock, FIFO and calling threads
    resolved,                 \* results of _resolve_runtime_llm calls, in order
    plan,                     \* PlannerAgent.plan: position, locals and history of one call
    assembly,                 \* a task list, its fallback team and its assembled result
    sched,                    \* DependencyScheduler and the task store: statuses and signals
    stream                    \* _run_prompt: the accumulation loop over chunk contents

selfVars == <<stop_flag, semaphore, active_executor_future, provider_rr_index,
              provider_key_indices, pool_key_index>>
genVars == <<gen, idle_timeouts, aborted_on_idle_timeout, delivered, since_event,
             own_events>>
workerVars == <<worker, site, emitted_chunks, current_message, stop_seen, can_failover,
                trace, first_outcome>>
executorVars == <<settings, observed, selfVars, genVars, workerVars, executor_future,
                  llm_cfg, chunk_queue, session_reset>>
restVars == <<phase, limiter, resolved, plan, assembly, sched, stream>>
vars == <<executorVars, restVars>>

\* ------------------------------------------------------- ProviderRegistry
NoConfig == [provider_id |-> 0, api_key |-> 0, resolved |-> FALSE]
BuiltinConfig == [provider_id |-> 0, api_key |-> 0, resolved |-> TRUE]

Modes == {"selected", "round_robin", "failover"}

\* Every entry taken for enabled.
AllIds(reg) == [i \in 1..Len(reg) |-> i]

\* ids of the enabled entries, in registry order (lines 271-275)
EnabledIds(reg) ==
    LET F[i \in 0..Len(reg)] ==
            IF i = 0 THEN <<>>
            ELSE IF reg[i].enabled THEN Append(F[i - 1], i) ELSE F[i - 1]
    IN F[Len(reg)]

\* The key index left where it was.
NextKeyStuck(kidx, pid, keys) ==
    [key |-> IF keys = <<>> THEN 0 ELSE keys[(kidx[pid] % Len(keys)) + 1], kidx |-> kidx]

_next_key_for_provider(kidx, pid, keys) ==
    IF keys = <<>>
    THEN [key |-> 0, kidx |-> kidx]
    ELSE [key |-> keys[(kidx[pid] % Len(keys)) + 1],
          kidx |-> [kidx EXCEPT ![pid] = @ + 1]]

\* The entry's key index is advanced (line 257) before the entry is given up
\* for want of a model (lines 258-259).
_resolve_custom_provider(S, kidx, sel) ==
    IF sel.kind = "custom" /\ sel.id \in 1..Len(S.registry)
       /\ S.registry[sel.id].enabled
    THEN LET k == _next_key_for_provider(kidx, sel.id, S.registry[sel.id].keys)
         IN [cfg |-> IF S.registry[sel.id].model
                     THEN [provider_id |-> sel.id, api_key |-> k.key, resolved |-> TRUE]
                     ELSE NoConfig,
             kidx |-> k.kidx]
    ELSE [cfg |-> NoConfig, kidx |-> kidx]

\* lines 391-397 and 416-422: the first occurrence of each key, in order
RECURSIVE Dedup(_)
Dedup(keys) ==
    IF keys = <<>> THEN <<>>
    ELSE LET init == Dedup(SubSeq(keys, 1, Len(keys) - 1))
             last == keys[Len(keys)]
         IN IF \E i \in 1..Len(init) : init[i] = last THEN init ELSE Append(init, last)

\* The provider resolve_open_interpreter_llm settles on (lines 96-143): the
\* configured one when the selection is "auto" or names a built-in provider
\* (selected.kind = "auto"), the local provider for a selection that the
\* registry did not resolve.
BuiltinProvider(S) == IF S.selected.kind = "auto" THEN S.pool.provider ELSE "ollama"

\* lines 293-298: the built-in configuration, with the pool's next key
_next_pool_key(S, pidx) ==
    LET prov == BuiltinProvider(S)
        keys == Dedup(S.pool.keys)
    IN IF prov \in {"groq", "openai"} /\ keys # <<>>
       THEN [key |-> keys[(pidx[prov] % Len(keys)) + 1],
             pidx |-> [pidx EXCEPT ![prov] = @ + 1]]
       ELSE [key |-> 0, pidx |-> pidx]

\* The index used for the selection and the index left behind (lines 278-282).
RotationBefore(idx, on_error) == IF on_error THEN idx + 1 ELSE idx
RotationAfter(idx, on_error) == IF on_error THEN idx ELSE idx + 1

_resolve_runtime_llm(S, idx, kidx, pidx, on_error) ==
    LET providers == EnabledIds(S.registry)
        rotate == S.mode \in {"round_robin", "failover"}
        auto == S.selected.kind = "registry_auto" /\ providers # <<>>
        used == RotationBefore(idx, on_error)
        pid == IF rotate THEN providers[(used % Len(providers)) + 1]
               ELSE providers[1]
        idx2 == IF auto /\ rotate THEN RotationAfter(used, on_error) ELSE idx
        first == IF auto
                 THEN _resolve_custom_provider(S, kidx, [kind |-> "custom", id |-> pid])
                 ELSE [cfg |-> NoConfig, kidx |-> kidx]
        custom == _resolve_custom_provider(S, first.kidx, S.selected)
        pool == _next_pool_key(S, pidx)
    IN IF first.cfg.resolved
       THEN [cfg |-> first.cfg, idx |-> idx2, kidx |-> first.kidx, pidx |-> pidx]
       ELSE IF custom.cfg.resolved
       THEN [cfg |-> custom.cfg, idx |-> idx2, kidx |-> custom.kidx, pidx |-> pidx]
       ELSE [cfg |-> [BuiltinConfig EXCEPT !.api_key = pool.key],
             idx |-> idx2, kidx |-> custom.kidx, pidx |-> pool.pidx]

_has_runtime_fallback(S, llm) ==
    IF S.selected.kind = "registry_auto" /\ S.mode \in {"round_robin", "failover"}
       /\ Len(EnabledIds(S.registry)) > 1
    THEN TRUE
    ELSE IF llm.provider_id \in 1..Len(S.registry)
            /\ S.registry[llm.provider_id].enabled
    THEN Len(S.registry[llm.provider_id].keys) > 1
    ELSE IF BuiltinProvider(S) \in {"groq", "openai"}
    THEN Len(Dedup(S.pool.keys)) > 1
    ELSE FALSE

\* Exception messages, as the set of vocabulary tokens they contain.
ErrMessages == {{"rate limit"}, {"quota"}, {"billing"}, {"401", "credit"}, {"boom"}}

\* lines 772-784
TransientVocabulary ==
    {"rate limit", "too many requests", "429", "quota", "api key", "unauthorized",
     "401", "forbidden", "authentication"}

IsTransient(err) == err \cap TransientVocabulary # {}

_is_quota_like_error(err) ==
    err \cap {"quota", "insufficient_quota", "max budget", "billing", "credit"} # {}

\* The handler retrying on every transient exception.
RetriesAlways(err, failover) == IsTransient(err)

\* line 785: the exception handler retries
RetriesAfterException(err, failover) ==
    IsTransient(err) /\ (failover \/ ~_is_quota_like_error(err))

\* ------------------------------------------------------ StreamingExecutor
EndMarker == [n |-> 0, type |-> "end"]
Event(k, t) == [n |-> k, type |-> t]

\* The queue filled at the wrong end.
ChunkQueuePutFront(q, e) == <<e>> \o q

\* line 634: the worker hands an event to the loop, which puts it on the queue
\* (call_soon_threadsafe callbacks run in the order they were scheduled)
ChunkQueuePut(q, e) == Append(q, e)
\* line 812: chunk_queue.get()
ChunkQueueGet(q) == Head(q)

Alive(c) == worker[c] \notin {"none", "exited"}
FutureDone(c) == executor_future[c] \in {"done", "cancelled"}
\* "get": suspended at the yield of line 816 or 837, or awaiting the queue
\* (line 812) after the caller asked for the next event.
Yielding == {"busy", "yield_abort"}


NoOutcome == [ended |-> FALSE, raised |-> FALSE, err |-> {}, empty |-> FALSE]

\* History is kept for the observed calls only.
Recorded(c, new, old) == IF c \in observed THEN new ELSE old

\* lines 652-655: _stream_once calls the rate limiter, then the provider
_stream_once(tr, cfg) ==
    tr \o <<[op |-> "enforce", provider_id |-> 0],
            [op |-> "chat", provider_id |-> cfg.provider_id]>>

\* The locals of run() are dead once the generator is closed, those of
\* run_sync once the worker has exited; nobody reads the queue of a closed
\* generator.
GenLocals(c) ==
    <<idle_timeouts[c], aborted_on_idle_timeout[c], chunk_queue[c], delivered[c],
      since_event[c], own_events[c]>>
WorkerLocals(c) ==
    <<llm_cfg[c], site[c], emitted_chunks[c], can_failover[c], trace[c],
      first_outcome[c], current_message[c], stop_seen[c]>>
Collectable(c) ==
    /\ gen[c] = "closed"
    /\ \/ GenLocals(c) # <<0, FALSE, <<>>, <<>>, 0, {}>>
       \/ /\ worker[c] \in {"none", "exited"}
          /\ WorkerLocals(c) # <<NoConfig, "try", 0, FALSE, <<>>, NoOutcome, FALSE, FALSE>>
Settled == \A c \in Calls : ~Collectable(c)

\* The idle count kept across an event.
IdleNotReset(n) == n

\* The value idle_timeouts takes when an event was received (line 815).
IdleAfterEvent(n) == 0

\* The check of the tracked future left out.
PriorRunIgnored == FALSE

\* line 556: the new run is rejected while the tracked future is not done
PriorRunBlocks ==
    active_executor_future # 0 /\ executor_future[active_executor_future] = "pending"

\* lines 851-857: leaving the try block of run()
FinallyActive(c, fut) ==
    IF fut \in {"done", "cancelled"} /\ active_executor_future = c
    THEN 0 ELSE active_executor_future

\* asyncio.wait_for(executor_future, timeout=3.0) at line 842 times out: wait_for
\* cancels the future it was given (it is not shielded, unlike line 552); a
\* cancelled asyncio future is done(), the thread behind it keeps running.
WaitForTimedOut(fut) == IF fut = "pending" THEN "cancelled" ELSE fut

\* lines 566-612, 798-807: resolve the provider, start the worker thread
StartWorker(c) ==
    LET r == _resolve_runtime_llm(settings, provider_rr_index, provider_key_indices,
                                  pool_key_index, FALSE)
    IN /\ provider_rr_index' = r.idx
       /\ provider_key_indices' = r.kidx
       /\ pool_key_index' = r.pidx
       /\ llm_cfg' = [llm_cfg EXCEPT ![c] = r.cfg]
       /\ can_failover' = [can_failover EXCEPT ![c] = _has_runtime_fallback(settings, r.cfg)]
       /\ worker' = [worker EXCEPT ![c] = "chat"]
       /\ trace' = [trace EXCEPT ![c] = Recorded(c, _stream_once(@, r.cfg), @)]
       /\ executor_future' = [executor_future EXCEPT ![c] = "pending"]
       /\ active_executor_future' = c
       /\ gen' = [gen EXCEPT ![c] = "get"]
       /\ session_reset' = FALSE
       /\ UNCHANGED <<site, emitted_chunks, first_outcome, current_message, stop_seen>>

\* The caller asks for the first event: the generator body starts (line 544).
Request(c) ==
    /\ Settled
    /\ gen[c] = "new"
    /\ \A d \in Calls : d < c => gen[d] # "new"
    /\ gen' = [gen EXCEPT ![c] = "acquire"]
    /\ UNCHANGED <<settings, observed, restVars, selfVars, idle_timeouts, aborted_on_idle_timeout, delivered,
                   since_event, own_events, workerVars, executor_future, llm_cfg, chunk_queue,
                   session_reset>>

\* lines 544-552: the semaphore is acquired, the stop flag cleared; a tracked
\* future that is not done leads to reset() and the bounded wait.
Acquire(c) ==
    /\ Settled
    /\ gen[c] = "acquire"
    /\ semaphore = 0
    /\ semaphore' = c
    /\ stop_flag' = FALSE
    /\ IF PriorRunBlocks
       THEN /\ gen' = [gen EXCEPT ![c] = "softwait"]
            /\ session_reset' = TRUE
            /\ UNCHANGED <<active_executor_future, provider_rr_index,
                           provider_key_indices, pool_key_index, workerVars, executor_future, llm_cfg>>
       ELSE StartWorker(c)
    /\ UNCHANGED <<settings, observed, restVars, idle_timeouts, aborted_on_idle_timeout, delivered,
                   since_event, own_events, chunk_queue>>

\* line 552 returns because the previous worker's future completed in time
SoftWaitDone(c) ==
    /\ Settled
    /\ gen[c] = "softwait"
    /\ ~PriorRunBlocks
    /\ StartWorker(c)
    /\ UNCHANGED <<settings, observed, restVars, stop_flag, semaphore, idle_timeouts,
                   aborted_on_idle_timeout, delivered, since_event, own_events, chunk_queue>>

\* line 552 times out after 2 s: the busy error is yielded (lines 556-563)
SoftWaitTimeout(c) ==
    /\ Settled
    /\ gen[c] = "softwait"
    /\ PriorRunBlocks
    /\ gen' = [gen EXCEPT ![c] = "busy"]
    /\ own_events' = [own_events EXCEPT ![c] = Recorded(c, @ \cup {"error"}, @)]
    /\ UNCHANGED <<settings, observed, restVars, selfVars, idle_timeouts, aborted_on_idle_timeout, delivered,
                   since_event, workerVars, executor_future, llm_cfg, chunk_queue,
                   session_reset>>

\* lines 812-816: an item arrives within 60 s
GetChunk(c) ==
    /\ Settled
    /\ gen[c] = "get"
    /\ chunk_queue[c] # <<>>
    /\ LET chunk == ChunkQueueGet(chunk_queue[c])
       IN /\ chunk_queue' = [chunk_queue EXCEPT ![c] = Tail(@)]
          /\ IF chunk = EndMarker
             THEN /\ gen' = [gen EXCEPT ![c] = "finalwait"]
                  /\ UNCHANGED <<idle_timeouts, delivered, since_event>>
             ELSE /\ UNCHANGED gen
                  /\ idle_timeouts' = [idle_timeouts EXCEPT ![c] = IdleAfterEvent(@)]
                  /\ delivered' = [delivered EXCEPT ![c] = Append(@, chunk)]
                  /\ since_event' = [since_event EXCEPT ![c] = 0]
    /\ UNCHANGED <<settings, observed, restVars, selfVars, aborted_on_idle_timeout, workerVars,
                   executor_future, llm_cfg, session_reset, own_events>>

\* lines 817-837: no item for 60 s
IdleTimeout(c) ==
    /\ Settled
    /\ gen[c] = "get"
    /\ chunk_queue[c] = <<>>
    /\ idle_timeouts' = [idle_timeouts EXCEPT ![c] = @ + 1]
    /\ since_event' = [since_event EXCEPT ![c] = @ + 1]
    /\ IF FutureDone(c)
       THEN /\ gen' = [gen EXCEPT ![c] = "finalwait"]
            /\ UNCHANGED <<stop_flag, aborted_on_idle_timeout, own_events>>
       ELSE IF idle_timeouts[c] + 1 >= max_idle_timeouts
       THEN /\ stop_flag' = TRUE
            /\ aborted_on_idle_timeout' = [aborted_on_idle_timeout EXCEPT ![c] = TRUE]
            /\ gen' = [gen EXCEPT ![c] = "yield_abort"]
            /\ own_events' = [own_events EXCEPT ![c] = Recorded(c, @ \cup {"error"}, @)]
       ELSE \* line 837: the "Still processing" message is yielded
            /\ own_events' = [own_events EXCEPT ![c] = Recorded(c, @ \cup {"message"}, @)]
            /\ UNCHANGED <<gen, stop_flag, aborted_on_idle_timeout>>
    /\ UNCHANGED <<settings, observed, restVars, semaphore, active_executor_future, provider_rr_index,
                   provider_key_indices, pool_key_index, delivered, workerVars, executor_future,
                   llm_cfg, chunk_queue, session_reset>>

\* The caller asks for the next event after a yield.
Resume(c) ==
    /\ Settled
    /\ gen[c] \in Yielding
    /\ \/ /\ gen[c] = "yield_abort"
          /\ gen' = [gen EXCEPT ![c] = "abortwait"]
          /\ UNCHANGED semaphore
       \/ /\ gen[c] = "busy"
          /\ gen' = [gen EXCEPT ![c] = "closed"]
          /\ semaphore' = 0
    /\ UNCHANGED <<settings, observed, restVars, stop_flag, active_executor_future, provider_rr_index,
                   provider_key_indices, pool_key_index, idle_timeouts, aborted_on_idle_timeout,
                   delivered, since_event, own_events, workerVars, executor_future, llm_cfg,
                   chunk_queue, session_reset>>

\* lines 840-846 and 851-857: the wait for the worker after the loop
AwaitWorker(c) ==
    /\ Settled
    /\ \/ /\ gen[c] = "finalwait"
          /\ FutureDone(c)
          /\ UNCHANGED executor_future
       \/ /\ gen[c] = "abortwait"
          /\ executor_future' =
                 [executor_future EXCEPT ![c] = WaitForTimedOut(@)]
    /\ active_executor_future' = FinallyActive(c, executor_future'[c])
    /\ semaphore' = 0
    /\ gen' = [gen EXCEPT ![c] = "closed"]
    /\ UNCHANGED <<settings, observed, restVars, stop_flag, provider_rr_index, provider_key_indices, pool_key_index,
                   idle_timeouts, aborted_on_idle_timeout, delivered, since_event, own_events,
                   workerVars, llm_cfg, chunk_queue, session_reset>>

\* The consumer abandons the sequence: the generator is closed at a yield, or
\* the pending __anext__ is cancelled at an await (planner.py line 750).
Abandon(c) ==
    /\ Settled
    /\ gen[c] \in Yielding \cup {"acquire", "softwait", "get"}
    /\ gen' = [gen EXCEPT ![c] = "closed"]
    /\ semaphore' = IF semaphore = c THEN 0 ELSE semaphore
    /\ active_executor_future' =
           IF gen[c] \in {"acquire", "softwait", "busy"}
           THEN active_executor_future
           ELSE FinallyActive(c, executor_future[c])
    /\ UNCHANGED <<settings, observed, restVars, stop_flag, provider_rr_index, provider_key_indices, pool_key_index,
                   idle_timeouts, aborted_on_idle_timeout, delivered, since_event, own_events,
                   workerVars, executor_future, llm_cfg, chunk_queue, session_reset>>

\* lines 859-866
Stop ==
    /\ Settled
    /\ stop_flag' = TRUE
    /\ session_reset' = TRUE
    /\ UNCHANGED <<settings, observed, restVars, semaphore, active_executor_future, provider_rr_index,
                   provider_key_indices, pool_key_index, genVars, workerVars, executor_future, llm_cfg,
                   chunk_queue>>

\* ---------------------------------------------------- run_sync (the worker)
\* The retry calling the provider without the rate limiter.
RetryUnpaced(tr, cfg) ==
    tr \o <<[op |-> "resolve", provider_id |-> cfg.provider_id],
            [op |-> "chat", provider_id |-> cfg.provider_id]>>

\* lines 748-750 and 787-789: the retry re-resolves, then runs _stream_once
RetryStream(tr, cfg) ==
    _stream_once(Append(tr, [op |-> "resolve", provider_id |-> cfg.provider_id]), cfg)

\* line 746 / line 785: a second provider call is made
RetryWanted(c, raised, err, emitted) ==
    IF raised THEN RetriesAfterException(err, can_failover[c])
    ELSE emitted = 0 /\ can_failover[c]

\* The retry running inside the try block again.
RetryInTry(raised) == "try"

\* The handler the retry of the first _stream_once runs in.
RetrySite(raised) == IF raised THEN "outer" ELSE "inner"

\* lines 758-767 and 793: the error event that ends the run, if any
ErrorEmitted(c, raised, emitted) ==
    CASE site[c] = "try" -> raised \/ emitted = 0
      [] site[c] = "inner" -> emitted = 0
      [] OTHER -> raised

\* lines 736-739: after the first _stream_once call has returned, the
\* buffered content is emitted
Flushed(c, raised) == site[c] = "try" /\ ~raised /\ current_message[c]

\* lines 734-796: what run_sync does when a _stream_once call returned or
\* raised; seen: it returned because the stop flag was found set
AfterStream(c, raised, err, seen) ==
    LET flushed == Flushed(c, raised)
        emitted == IF flushed THEN emitted_chunks[c] + 1 ELSE emitted_chunks[c]
        queue == IF flushed
                 THEN ChunkQueuePut(chunk_queue[c], Event(emitted, "message"))
                 ELSE chunk_queue[c]
    IN
    /\ first_outcome' =
           [first_outcome EXCEPT ![c] =
               IF site[c] = "try"
               THEN Recorded(c, [ended |-> TRUE, raised |-> raised, err |-> err,
                                 empty |-> emitted = 0], @)
               ELSE @]
    /\ stop_seen' = [stop_seen EXCEPT ![c] = Recorded(c, @ \/ seen, @)]
    /\ current_message' = [current_message EXCEPT ![c] = IF flushed THEN FALSE ELSE @]
    /\ IF site[c] = "try" /\ RetryWanted(c, raised, err, emitted)
       THEN LET r == _resolve_runtime_llm(settings, provider_rr_index,
                                          provider_key_indices, pool_key_index, TRUE)
            IN /\ provider_rr_index' = r.idx
               /\ provider_key_indices' = r.kidx
               /\ pool_key_index' = r.pidx
               /\ llm_cfg' = [llm_cfg EXCEPT ![c] = r.cfg]
               /\ trace' = [trace EXCEPT ![c] = Recorded(c, RetryStream(@, r.cfg), @)]
               /\ site' = [site EXCEPT ![c] = RetrySite(raised)]
               /\ emitted_chunks' = [emitted_chunks EXCEPT ![c] = emitted]
               /\ chunk_queue' = [chunk_queue EXCEPT ![c] = queue]
               /\ UNCHANGED <<worker, executor_future>>
       ELSE LET n == emitted + 1
                q == IF ErrorEmitted(c, raised, emitted)
                     THEN ChunkQueuePut(queue, Event(n, "error"))
                     ELSE queue
            IN /\ emitted_chunks' =
                      [emitted_chunks EXCEPT ![c] =
                          IF ErrorEmitted(c, raised, emitted) THEN n ELSE emitted]
               /\ chunk_queue' = [chunk_queue EXCEPT ![c] = ChunkQueuePut(q, EndMarker)]
               /\ worker' = [worker EXCEPT ![c] = "exited"]
               /\ executor_future' =
                      [executor_future EXCEPT ![c] = IF @ = "pending" THEN "done" ELSE @]
               /\ UNCHANGED <<provider_rr_index, provider_key_indices, pool_key_index, llm_cfg,
                              trace, site>>
    /\ UNCHANGED <<settings, observed, restVars, stop_flag, semaphore, active_executor_future, genVars,
                   can_failover, session_reset>>

\* lines 655-732: the provider yields a chunk; the stop flag is polled first.
\* A chunk is emitted as an event (line 727) or, a bare string, kept in
\* current_message (line 732).
WChunk(c) ==
    /\ Settled
    /\ worker[c] = "chat"
    /\ IF stop_flag
       THEN AfterStream(c, FALSE, {}, TRUE)
       ELSE /\ \/ /\ emitted_chunks[c] < MaxChunks
                  /\ emitted_chunks' = [emitted_chunks EXCEPT ![c] = @ + 1]
                  /\ chunk_queue' = [chunk_queue EXCEPT ![c] =
                         ChunkQueuePut(@, Event(emitted_chunks[c] + 1, "message"))]
                  /\ UNCHANGED current_message
               \/ /\ ~current_message[c]
                  /\ current_message' = [current_message EXCEPT ![c] = TRUE]
                  /\ UNCHANGED <<emitted_chunks, chunk_queue>>
            /\ UNCHANGED <<settings, observed, restVars, selfVars, genVars, worker, site, can_failover,
                           trace, first_outcome, executor_future, llm_cfg,
                           session_reset, stop_seen>>

\* the provider's stream ends
WStreamEnd(c) ==
    /\ Settled
    /\ worker[c] = "chat"
    /\ AfterStream(c, FALSE, {}, FALSE)

\* the provider call raises
WRaise(c) ==
    /\ Settled
    /\ worker[c] = "chat"
    /\ \E err \in ErrMessages : AfterStream(c, TRUE, err, FALSE)

\* Dead locals are released; nothing else happens before.
Release(c) ==
    /\ Collectable(c)
    /\ idle_timeouts' = [idle_timeouts EXCEPT ![c] = 0]
    /\ aborted_on_idle_timeout' = [aborted_on_idle_timeout EXCEPT ![c] = FALSE]
    /\ chunk_queue' = [chunk_queue EXCEPT ![c] = <<>>]
    /\ delivered' = [delivered EXCEPT ![c] = <<>>]
    /\ since_event' = [since_event EXCEPT ![c] = 0]
    /\ own_events' = [own_events EXCEPT ![c] = {}]
    /\ IF worker[c] \in {"none", "exited"}
       THEN /\ llm_cfg' = [llm_cfg EXCEPT ![c] = NoConfig]
            /\ site' = [site EXCEPT ![c] = "try"]
            /\ emitted_chunks' = [emitted_chunks EXCEPT ![c] = 0]
            /\ can_failover' = [can_failover EXCEPT ![c] = FALSE]
            /\ trace' = [trace EXCEPT ![c] = <<>>]
            /\ first_outcome' = [first_outcome EXCEPT ![c] = NoOutcome]
            /\ current_message' = [current_message EXCEPT ![c] = FALSE]
            /\ stop_seen' = [stop_seen EXCEPT ![c] = FALSE]
       ELSE UNCHANGED <<llm_cfg, site, emitted_chunks, can_failover, trace,
                        first_outcome, current_message, stop_seen>>
    /\ UNCHANGED <<settings, observed, restVars, selfVars, gen, worker, executor_future,
                   session_reset>>

\* ------------------------------------------ _enforce_requests_per_minute
\* The limiter is called by the run_sync worker threads (line 654), one thread
\* per run() call.  time.sleep releases the interpreter lock, and nothing
\* serialises two threads inside the function: a thread runs from one reading
\* or update of the shared FIFO to the next.
Threads == Calls

Max(a, b) == IF a >= b THEN a ELSE b

\* lines 435-441
min_interval(limit, configured) ==
    Max(configured, IF limit > 0 THEN minute \div limit ELSE 0)

\* lines 461-462 and 474-475: expired entries leave from the front
RECURSIVE Evict(_, _)
Evict(times, now) ==
    IF times # <<>> /\ now - Head(times) >= window
    THEN Evict(Tail(times), now)
    ELSE times

IdleThread == [pc |-> "idle", wake |-> 0]

\* lines 435-453: the pacing delay is computed and slept, if any
EnforceEnter(t) ==
    /\ limiter.th[t].pc = "idle"
    /\ limiter.calls < MaxEnforce
    /\ LET now == limiter.clock
           mi == min_interval(limiter.limit, limiter.configured)
           delta == now - limiter.last_request_ts
       IN IF mi > 0 /\ limiter.last_request_ts > 0 /\ delta < mi
          THEN limiter' = [limiter EXCEPT !.calls = @ + 1,
                              !.th[t] = [pc |-> "pacing", wake |-> now + (mi - delta)]]
          ELSE limiter' = [limiter EXCEPT !.calls = @ + 1,
                              !.th[t] = [pc |-> "check", wake |-> 0]]
    /\ UNCHANGED <<executorVars, phase, resolved, plan, assembly, sched, stream>>

\* line 453 or line 472 returns: time.sleep lasts at least as long as asked
Wake(t) ==
    /\ limiter.th[t].pc \in {"pacing", "window"}
    /\ limiter.clock >= limiter.th[t].wake
    /\ limiter' = [limiter EXCEPT
                      !.th[t] = [pc |-> IF limiter.th[t].pc = "pacing"
                                        THEN "check" ELSE "recheck",
                                 wake |-> 0]]
    /\ UNCHANGED <<executorVars, phase, resolved, plan, assembly, sched, stream>>

\* lines 456-472: without a cap the call returns; otherwise expired entries
\* are evicted and a full window is waited for
EnforceCheck(t) ==
    /\ limiter.th[t].pc = "check"
    /\ LET now == limiter.clock
           times == Evict(limiter.request_times, now)
       IN IF limiter.limit <= 0
          THEN limiter' = [limiter EXCEPT !.last_request_ts = now,
                              !.returns = Append(@, now),
                              !.th[t] = IdleThread]
          ELSE IF Len(times) >= limiter.limit /\ window - (now - Head(times)) > 0
          THEN limiter' = [limiter EXCEPT !.request_times = times,
                              !.th[t] = [pc |-> "window",
                                         wake |-> now + (window - (now - Head(times)))]]
          ELSE limiter' = [limiter EXCEPT !.request_times = times,
                              !.th[t] = [pc |-> "append", wake |-> 0]]
    /\ UNCHANGED <<executorVars, phase, resolved, plan, assembly, sched, stream>>

\* lines 473-475: after the wait the expired entries are evicted once more
EnforceRecheck(t) ==
    /\ limiter.th[t].pc = "recheck"
    /\ limiter' = [limiter EXCEPT
                      !.request_times = Evict(@, limiter.clock),
                      !.th[t] = [pc |-> "append", wake |-> 0]]
    /\ UNCHANGED <<executorVars, phase, resolved, plan, assembly, sched, stream>>

\* lines 477-479: the call is recorded and returns
EnforceAppend(t) ==
    /\ limiter.th[t].pc = "append"
    /\ limiter' = [limiter EXCEPT
                      !.request_times = Append(@, limiter.clock),
                      !.last_request_ts = limiter.clock,
                      !.returns = Append(@, limiter.clock),
                      !.th[t] = IdleThread]
    /\ UNCHANGED <<executorVars, phase, resolved, plan, assembly, sched, stream>>

\* time.monotonic() advances
Tick ==
    /\ limiter.clock + TickLen <= MaxClock
    /\ limiter' = [limiter EXCEPT !.clock = @ + TickLen]
    /\ UNCHANGED <<executorVars, phase, resolved, plan, assembly, sched, stream>>

NoLimiter ==
    [clock |-> 0, limit |-> 0, configured |-> 0, request_times |-> <<>>,
     last_request_ts |-> 0, calls |-> 0, returns |-> <<>>,
     th |-> [t \in Threads |-> IdleThread]]

\* ------------------------------------------- PlannerAgent._run_prompt
\* The stream is router.run(...), consumed through its async iterator; the
\* clock counts whole seconds since the phase was entered.  The 0.1 s minimum
\* wait of line 748 is below that resolution: with whole seconds
\* overall_timeout_s - elapsed is at least 1 wherever the wait is started.
overall_timeout_s(backend) ==
    IF backend = "open_interpreter" THEN oi_overall_timeout_s
    ELSE default_overall_timeout_s

chunk_idle_timeout_s(backend) ==
    IF backend = "open_interpreter" THEN oi_chunk_idle_timeout_s
    ELSE default_chunk_idle_timeout_s

Min(a, b) == IF a <= b THEN a ELSE b

\* line 748
WaitTimeout(backend, elapsed) ==
    Min(chunk_idle_timeout_s(backend), overall_timeout_s(backend) - elapsed)

\* The overall timer restarted by activity.
StartedReset(started, now) == now

\* The start of the overall timer after a chunk was handled: line 726 sets it
\* once, before the loop.
StartedAfterChunk(started, now) == started

\* The chunks the loop tells apart: a done or error chunk, a chunk that is no
\* message, a message without content, the executor's "Still processing"
\* heartbeat, content, content that completes a JSON array, and content that
\* takes the output to max_output_chars.
ChunkKinds == {"done", "error", "tool", "empty", "heartbeat", "text", "json", "oversize"}

\* Instants at which the awaited item may arrive within a wait of t seconds;
\* at t itself the item arrives as the timeout expires and is still returned.
Arrivals(t) == {(k * t) \div Granularity : k \in 0..Granularity}

\* lines 739-748: the top of the loop
PhaseTop ==
    /\ phase.pc = "top"
    /\ LET elapsed == phase.now - phase.started
       IN IF elapsed >= overall_timeout_s(phase.backend)
          THEN phase' = [phase EXCEPT !.pc = "overall_timeout", !.stopped = TRUE]
          ELSE phase' = [phase EXCEPT !.pc = "wait",
                            !.deadline = phase.now + WaitTimeout(phase.backend, elapsed)]
    /\ UNCHANGED <<executorVars, limiter, resolved, plan, assembly, sched, stream>>

\* lines 774-835: what the loop does with a chunk.  The repetition guard of
\* lines 837-846 needs eight accepted chunks, more than a phase run here has.
AfterChunk(kind, expect_json) ==
    CASE kind = "done" -> [pc |-> "returned", accept |-> FALSE, stop |-> FALSE]
      [] kind = "error" -> [pc |-> "backend_error", accept |-> FALSE, stop |-> FALSE]
      [] kind \in {"tool", "empty"} -> [pc |-> "top", accept |-> FALSE, stop |-> FALSE]
      [] kind = "heartbeat" -> [pc |-> "top", accept |-> ~expect_json, stop |-> FALSE]
      [] kind = "json" /\ expect_json ->
             [pc |-> "captured", accept |-> TRUE, stop |-> FALSE]
      [] kind = "oversize" -> [pc |-> "truncated", accept |-> TRUE, stop |-> TRUE]
      [] OTHER -> [pc |-> "top", accept |-> TRUE, stop |-> FALSE]

\* line 750 returns a chunk
PhaseChunk ==
    /\ phase.pc = "wait"
    /\ phase.chunk_count < MaxPhaseChunks
    /\ \E d \in Arrivals(phase.deadline - phase.now), kind \in ChunkKinds :
         LET r == AfterChunk(kind, phase.expect_json)
         IN phase' = [phase EXCEPT
                         !.now = phase.now + d,
                         !.started = StartedAfterChunk(phase.started, phase.now + d),
                         !.chunk_count = @ + 1,
                         !.pc = r.pc,
                         !.stopped = r.stop,
                         !.output_parts = IF r.accept THEN @ + 1 ELSE @]
    /\ UNCHANGED <<executorVars, limiter, resolved, plan, assembly, sched, stream>>

\* lines 751-752: the stream ends
PhaseStreamEnd ==
    /\ phase.pc = "wait"
    /\ \E d \in Arrivals(phase.deadline - phase.now) :
         phase' = [phase EXCEPT !.now = phase.now + d, !.pc = "returned"]
    /\ UNCHANGED <<executorVars, limiter, resolved, plan, assembly, sched, stream>>

\* Every stall fails the phase.
IdleAlwaysFails(expect_json, output_parts) == "stalled"

\* lines 762-772: after the idle timeout the loop is left with the partial
\* text, or TimeoutError is raised
IdleOutcome(expect_json, output_parts) ==
    IF ~expect_json /\ output_parts > 0 THEN "partial" ELSE "stalled"

\* lines 753-772: the wait times out
PhaseIdle ==
    /\ phase.pc = "wait"
    /\ phase' = [phase EXCEPT
                    !.now = phase.deadline,
                    !.stopped = TRUE,
                    !.pc = IdleOutcome(phase.expect_json, phase.output_parts)]
    /\ UNCHANGED <<executorVars, limiter, resolved, plan, assembly, sched, stream>>

NoPhase ==
    [pc |-> "none", now |-> 0, started |-> 0, deadline |-> 0, backend |-> "",
     name |-> "", expect_json |-> FALSE, output_parts |-> 0, chunk_count |-> 0,
     stopped |-> FALSE]

PhaseNames == {"research", "prd", "tasks", "team"}

\* The prompt templates: those of the phases that are to return a JSON array
\* ask for JSON by name, those of the prose phases do not.
TemplateMentionsJson(name) == name \in {"tasks", "team"}

\* line 714, on the prompt plan() formats at lines 542, 551-554, 564 and 627:
\* the template with the project description and the outputs of earlier
\* phases filled in.  "json" is in the lower-cased prompt when it is in the
\* template or in one of the texts filled in.
ExpectJson(name, filled_in_mentions_json) ==
    TemplateMentionsJson(name) \/ filled_in_mentions_json

\* ------------------------------- _run_prompt: the contents of the chunks
\* A content is a sequence of characters.  Prose streams repeat one chunk,
\* with a few others in between; bracket streams are made of the characters
\* the array scan tells apart, one to a chunk, or a closing bracket together
\* with the quote behind it.
ProseContents == {<<"a">>, <<"A", " ">>, <<"b">>, <<"c">>, <<" ">>}
JsonChars == {"[", "]", "\"", "\\", "x"}
JsonContents == {<<x>> : x \in JsonChars} \cup {<<"]", "\"">>}

RECURSIVE Joined(_)
\* "".join(output_parts)
Joined(parts) == IF parts = <<>> THEN <<>> ELSE Head(parts) \o Joined(Tail(parts))

Lower(ch) == IF ch = "A" THEN "a" ELSE ch

RECURSIVE Words(_, _)
\* str.split(): the maximal runs of characters that are not whitespace
Words(text, word) ==
    IF text = <<>> THEN (IF word = <<>> THEN <<>> ELSE <<word>>)
    ELSE IF Head(text) = " "
         THEN (IF word = <<>> THEN <<>> ELSE <<word>>) \o Words(Tail(text), <<>>)
         ELSE Words(Tail(text), Append(word, Head(text)))

RECURSIVE JoinWords(_)
JoinWords(words) ==
    IF words = <<>> THEN <<>>
    ELSE IF Len(words) = 1 THEN words[1]
    ELSE words[1] \o <<" ">> \o JoinWords(Tail(words))

\* The content itself, neither lower-cased nor stripped.
NotNormalized(content) == content

\* lines 809 and 836: " ".join(content.lower().split())
Normalize(content) ==
    JoinWords(Words([i \in 1..Len(content) |-> Lower(content[i])], <<>>))

\* A list that keeps every chunk.
AppendUnbounded(deque, x) == Append(deque, x)

\* line 728: deque(maxlen=12).append drops the oldest entry of a full deque
DequeAppend(deque, x) ==
    IF Len(deque) = recent_maxlen THEN Append(Tail(deque), x) ELSE Append(deque, x)

Distinct(seq) == {seq[i] : i \in 1..Len(seq)}

\* line 840
Repetitive(recent) ==
    Len(recent) >= repeat_min_chunks /\ Cardinality(Distinct(recent)) <= repeat_max_distinct

\* str.find(ch, from): the first index at or after from, 0 for none
Find(text, ch, from) ==
    LET hits == {i \in from..Len(text) : text[i] = ch}
    IN IF hits = {} THEN 0 ELSE CHOOSE i \in hits : \A j \in hits : i <= j

RECURSIVE ParseValue(_, _)
RECURSIVE ParseString(_, _)
\* json.loads on a text of these characters: the index after the string that
\* starts behind the quote before index j, 0 when it is malformed.  Of the
\* escapes only \" and \\ are JSON.
ParseString(t, j) ==
    IF j > Len(t) THEN 0
    ELSE IF t[j] = "\"" THEN j + 1
    ELSE IF t[j] = "\\"
         THEN IF j + 1 <= Len(t) /\ t[j + 1] \in {"\"", "\\"} THEN ParseString(t, j + 2) ELSE 0
    ELSE ParseString(t, j + 1)

\* the index after the value that starts at index i, 0 when there is none;
\* without a comma an array has at most one element
ParseValue(t, i) ==
    IF i > Len(t) THEN 0
    ELSE IF t[i] = "\"" THEN ParseString(t, i + 1)
    ELSE IF t[i] = "["
         THEN IF i + 1 <= Len(t) /\ t[i + 1] = "]" THEN i + 2
              ELSE LET e == ParseValue(t, i + 1)
                   IN IF e # 0 /\ e <= Len(t) /\ t[e] = "]" THEN e + 1 ELSE 0
    ELSE 0

\* json.loads(candidate) returns a list
json_loads(candidate) == ParseValue(candidate, 1) = Len(candidate) + 1

RECURSIVE Scan(_, _, _, _, _)
\* lines 1112-1131: the scan from a start bracket; the index of the bracket
\* that takes the depth back to zero, 0 when the text ends before
Scan(text, idx, depth, in_string, escaped) ==
    IF idx > Len(text) THEN 0
    ELSE LET ch == text[idx]
         IN IF in_string
            THEN IF escaped THEN Scan(text, idx + 1, depth, TRUE, FALSE)
                 ELSE IF ch = "\\" THEN Scan(text, idx + 1, depth, TRUE, TRUE)
                 ELSE IF ch = "\"" THEN Scan(text, idx + 1, depth, FALSE, FALSE)
                 ELSE Scan(text, idx + 1, depth, TRUE, FALSE)
            ELSE IF ch = "\"" THEN Scan(text, idx + 1, depth, TRUE, escaped)
                 ELSE IF ch = "[" THEN Scan(text, idx + 1, depth + 1, FALSE, escaped)
                 ELSE IF ch = "]"
                      THEN IF depth - 1 = 0 THEN idx
                           ELSE Scan(text, idx + 1, depth - 1, FALSE, escaped)
                 ELSE Scan(text, idx + 1, depth, FALSE, escaped)

NoArray == [start |-> 0, end |-> 0]

RECURSIVE ExtractFrom(_, _)
\* lines 1106-1140: the loop over the start brackets
ExtractFrom(text, start) ==
    IF start = 0 THEN NoArray
    ELSE LET e == Scan(text, start, 0, FALSE, FALSE)
         IN IF e # 0 /\ json_loads(SubSeq(text, start, e))
            THEN [start |-> start, end |-> e]
            ELSE ExtractFrom(text, Find(text, "[", start + 1))

\* PlannerAgent._extract_first_json_array(text): where the array it returns
\* starts and ends in the text
_extract_first_json_array(text) ==
    IF text = <<>> THEN NoArray ELSE ExtractFrom(text, Find(text, "[", 1))

NoStream ==
    [pc |-> "none", family |-> "", expect_json |-> FALSE, output_parts |-> <<>>,
     recent_norm_chunks |-> <<>>, stopped |-> FALSE, span |-> NoArray, result |-> <<>>]

StreamContents ==
    IF stream.family = "prose"
    THEN {c \in ProseContents :
             /\ Len(stream.output_parts) < MaxGuardChunks
             /\ c # <<"a">> =>
                    Cardinality({i \in 1..Len(stream.output_parts) :
                                    stream.output_parts[i] # <<"a">>}) < MaxOdd}
    ELSE {c \in JsonContents : Len(Joined(stream.output_parts)) + Len(c) <= MaxJsonChars}

\* lines 802-846: a message chunk with content is received
StreamChunk ==
    /\ stream.pc = "top"
    /\ \E content \in StreamContents :
         LET output_parts == Append(stream.output_parts, content)
             joined == Joined(output_parts)
             parsed_list == IF stream.expect_json THEN _extract_first_json_array(joined)
                            ELSE NoArray
             normalized == Normalize(content)
             recent == IF normalized # <<>>
                       THEN DequeAppend(stream.recent_norm_chunks, normalized)
                       ELSE stream.recent_norm_chunks
         IN IF parsed_list # NoArray
            THEN stream' = [stream EXCEPT
                               !.pc = "captured",
                               !.output_parts = output_parts,
                               !.span = parsed_list,
                               !.result = SubSeq(joined, parsed_list.start, parsed_list.end)]
            ELSE IF normalized # <<>> /\ Repetitive(recent)
            THEN stream' = [stream EXCEPT
                               !.pc = "repetition",
                               !.output_parts = output_parts,
                               !.recent_norm_chunks = recent,
                               !.stopped = TRUE,
                               !.result = joined]
            ELSE stream' = [stream EXCEPT
                               !.output_parts = output_parts,
                               !.recent_norm_chunks = recent]
    /\ UNCHANGED <<executorVars, phase, limiter, resolved, plan, assembly, sched>>

\* lines 751-752 and 848: the stream ends and the joined text is returned
StreamEnd ==
    /\ stream.pc = "top"
    /\ stream' = [stream EXCEPT !.pc = "returned", !.result = Joined(stream.output_parts)]
    /\ UNCHANGED <<executorVars, phase, limiter, resolved, plan, assembly, sched>>

\* ------------------------------------------------------ PlannerAgent.plan
\* The text of one executor run, as far as plan() looks at it: empty,
\* whitespace only, or a body; the number of valid items _parse_tasks or
\* _parse_team finds in it (0 or 1 stands for none or some); whether it holds
\* one of the placeholder phrases of _is_placeholder_response; the number of
\* requirement lines _derive_tasks_from_text finds in it.
Empty == [kind |-> "empty", items |-> 0, phrase |-> FALSE, lines |-> 0]
Blank == [kind |-> "blank", items |-> 0, phrase |-> FALSE, lines |-> 0]
Prose == [kind |-> "body", items |-> 0, phrase |-> FALSE, lines |-> 0]

ProseTexts == {Empty, Blank, Prose}

JsonTexts(max_lines) ==
    {Empty, Blank}
    \cup {[kind |-> "body", items |-> i, phrase |-> ph, lines |-> n] :
             i \in 0..1, ph \in BOOLEAN, n \in 0..max_lines}

\* How _run_prompt ends (lines 697-857): it returns the accumulated text, or
\* raises on an error event (798), a stall (770) or the overall timeout (746).
Raises == {"backend_error", "stalled", "overall_timeout"}

Outcomes(texts) ==
    {[how |-> "returned", text |-> t] : t \in texts}
    \cup {[how |-> h, text |-> Empty] : h \in Raises}

\* What an await gives when the awaited call raised.
Raised == [kind |-> "raise", items |-> 0, phrase |-> FALSE, lines |-> 0]

RunPhasePromptUnguarded(outcome) ==
    IF outcome.how = "returned" THEN outcome.text ELSE Raised

\* _run_phase_prompt_or_empty (lines 859-880): an exception becomes "".
_run_phase_prompt_or_empty(outcome) ==
    IF outcome.how = "returned" THEN outcome.text ELSE Empty

\* _is_placeholder_response (lines 244-262).
_is_placeholder_response(raw) == raw.kind # "body" \/ raw.phrase

\* TaskSpec and AgentSpec as plan() uses them (planner.py line 17): a key n
\* stands for "t<n>"; the specialties of an AgentSpec, a list built in sorted
\* order from a set, are given as that set.
TaskSpec(key, task_type, required_specialties, estimated_minutes, blocked_by_keys) ==
    [key |-> key, task_type |-> task_type, required_specialties |-> required_specialties,
     estimated_minutes |-> estimated_minutes, blocked_by_keys |-> blocked_by_keys]

AgentSpec(name, specialties) == [name |-> name, specialties |-> specialties]

\* _parse_tasks (lines 882-898): the tasks of a parsed array are the model's;
\* one agent task stands for them.
_parse_tasks(raw) ==
    IF raw.kind = "body" /\ raw.items > 0
    THEN <<TaskSpec(1, "agent", <<>>, 30, <<>>)>>
    ELSE <<>>

\* _parse_team (lines 900-916): likewise one agent of the model's.
_parse_team(raw) ==
    IF raw.kind = "body" /\ raw.items > 0 THEN <<AgentSpec("parsed", {})>> ELSE <<>>

DerivedUnblocked(idx) == <<>>

\* blocked_by_keys of the idx-th derived task (line 474).
DerivedBlockers(idx) == IF idx > 1 THEN <<idx - 1>> ELSE <<>>

\* _derive_tasks_from_text (lines 427-499): key n stands for "t<n>".
_derive_tasks_from_text(raw) ==
    IF raw.kind # "body" \/ raw.lines = 0
    THEN <<>>
    ELSE LET n == Min(raw.lines, max_derived)
         IN [idx \in 1..n |-> TaskSpec(idx, "agent", <<"python">>, 45, DerivedBlockers(idx))]
            \o <<TaskSpec(n + 1, "human", <<"user">>, 15, <<n>>)>>

\* _fallback_tasks_from_context (lines 68-122).
_fallback_tasks_from_context ==
    <<TaskSpec(1, "agent", <<"python">>, 45, <<>>),
      TaskSpec(2, "agent", <<"python", "testing">>, 90, <<1>>),
      TaskSpec(3, "human", <<"user">>, 15, <<2>>)>>

\* _fallback_prd_from_context (lines 125-159): a template filled from the
\* description and an excerpt of the research notes.
_fallback_prd_from_context(project_description, research_notes) ==
    [kind |-> "template", summary |-> project_description, excerpt |-> research_notes]

PrdEmptyOnly(prd) == prd.kind = "empty"

\* Line 558: not (prd or "").strip().
PrdUnusable(prd) == prd.kind \in {"empty", "blank"}

ResearchAlways(research_depth) == FALSE

\* Line 529.
ResearchSkipped(research_depth) == research_depth = "none"

\* Lines 581 and 639: the condition of the retry run.
RetryNeeded(items, raw) == items = 0 \/ _is_placeholder_response(raw)

PhaseAfterSwapped(p) ==
    CASE p = "research" -> "prd"
      [] p = "prd" -> "team"
      [] p = "team" -> "tasks"
      [] p = "tasks" -> "returned"

\* The order of the phases in the body of plan() (lines 528-690).
PhaseAfter(p) ==
    CASE p = "research" -> "prd"
      [] p = "prd" -> "tasks"
      [] p = "tasks" -> "team"
      [] p = "team" -> "returned"

\* An entry of the history of plan(): a progress event published by
\* _broadcast_phase, the start of an executor run, or the text the run gave.
Ev(op, ph, context) ==
    [op |-> op, phase |-> ph, context |-> context,
     raised |-> FALSE, usable |-> FALSE, parsed |-> FALSE, placeholder |-> FALSE]

Gave(ph, context, outcome) ==
    LET raw == _run_phase_prompt_or_empty(outcome)
    IN [op |-> "text", phase |-> ph, context |-> context,
        raised |-> outcome.how # "returned",
        usable |-> raw.kind = "body",
        parsed |-> raw.kind = "body" /\ raw.items > 0,
        placeholder |-> _is_placeholder_response(raw)]

\* Line 678: sum(t.estimated_minutes for t in tasks).
RECURSIVE SumMinutes(_)
SumMinutes(tasks) ==
    IF tasks = <<>> THEN 0 ELSE Head(tasks).estimated_minutes + SumMinutes(Tail(tasks))

\* Line 669: t.task_type == "human".
IsHuman(t) == t.task_type = "human"

DepGraphOfAll(tasks) ==
    [k \in {tasks[i].key : i \in 1..Len(tasks)} |->
        tasks[CHOOSE i \in 1..Len(tasks) : tasks[i].key = k].blocked_by_keys]

\* Lines 673-676: the dict filled in the order of the tasks, an entry being
\* overwritten by a later task with the same key.
dep_graph(tasks) ==
    LET blocked == {i \in 1..Len(tasks) : tasks[i].blocked_by_keys # <<>>}
        last(k) == CHOOSE i \in blocked :
                       /\ tasks[i].key = k
                       /\ \A j \in blocked : tasks[j].key = k => j <= i
    IN [k \in {tasks[i].key : i \in blocked} |-> tasks[last(k)].blocked_by_keys]

\* Lines 668-690.
PlannerResult(prd, tasks, team, research) ==
    [prd_content |-> prd,
     tasks |-> SelectSeq(tasks, LAMBDA t : ~IsHuman(t)),
     human_tasks |-> SelectSeq(tasks, IsHuman),
     team_recommendation |-> team,
     dependency_graph |-> dep_graph(tasks),
     estimated_total_minutes |-> SumMinutes(tasks),
     research_notes |-> research]

NoResult == PlannerResult(Empty, <<>>, <<>>, Empty)

\* The code from the end of one phase to the next await: the progress event
\* and the first run of phase p, or the return.
Proceed(pl, p) ==
    IF p = "returned"
    THEN [pl EXCEPT !.pc = "returned",
                    !.result = PlannerResult(pl.prd, pl.tasks, pl.team, pl.research),
                    !.router_stopped = TRUE]
    ELSE [pl EXCEPT !.pc = p,
                    !.log = pl.log \o <<Ev("broadcast", p, p \o " phase"),
                                        Ev("run", p, p \o " phase")>>]

\* An exception leaves the try block of plan(): the finally clause (lines
\* 691-695) runs and the exception reaches the caller.
Propagate(pl) == [pl EXCEPT !.pc = "raised", !.router_stopped = TRUE]

\* Lines 524-545 (or 524-557 when research is skipped).
PlanStart ==
    /\ plan.pc = "start"
    /\ plan' = IF ResearchSkipped(plan.research_depth)
               THEN Proceed([plan EXCEPT !.research = Empty], "prd")
               ELSE Proceed(plan, "research")
    /\ UNCHANGED <<executorVars, phase, limiter, resolved, assembly, sched, stream>>

\* Lines 540-557: the research run is over.
ResearchDone ==
    /\ plan.pc = "research"
    /\ \E o \in Outcomes(ProseTexts) :
         plan' = IF _run_phase_prompt_or_empty(o) = Raised THEN Propagate(plan) ELSE
                 Proceed([plan EXCEPT
                             !.research = _run_phase_prompt_or_empty(o),
                             !.log = Append(plan.log, Gave("research", "research phase", o))],
                         PhaseAfter("research"))
    /\ UNCHANGED <<executorVars, phase, limiter, resolved, assembly, sched, stream>>

\* Lines 549-576: the PRD run is over.
PrdDone ==
    /\ plan.pc = "prd"
    /\ \E o \in Outcomes(ProseTexts) :
         LET prd == _run_phase_prompt_or_empty(o)
         IN plan' = IF prd = Raised THEN Propagate(plan) ELSE
                    Proceed([plan EXCEPT
                                !.prd = IF PrdUnusable(prd)
                                        THEN _fallback_prd_from_context(
                                                 plan.project_description, plan.research)
                                        ELSE prd,
                                !.log = Append(plan.log, Gave("prd", "prd phase", o))],
                            PhaseAfter("prd"))
    /\ UNCHANGED <<executorVars, phase, limiter, resolved, assembly, sched, stream>>

\* Lines 597-617: the task list after the last run of the phase.
TasksOrFallback(tasks, tasks_raw) ==
    IF tasks # <<>> THEN tasks
    ELSE IF _derive_tasks_from_text(tasks_raw) # <<>>
         THEN _derive_tasks_from_text(tasks_raw)
         ELSE _fallback_tasks_from_context

\* _diagnostic_sample (lines 266-273): "" for a text that is empty or blank,
\* else the stripped text, cut at max_chars; of the sample only whether it
\* is empty is kept.
_diagnostic_sample(raw) == IF raw.kind \in {"empty", "blank"} THEN "" ELSE "compact"

\* An entry of parse_diagnostics: the keys it has, and their values.
NoDiagnostics ==
    [keys |-> {}, fallback_used |-> FALSE, derived_from_text |-> FALSE, attempts |-> <<>>]

Diagnostics(fallback_used, tasks_attempts) ==
    [keys |-> {"fallback_used", "attempts"}, fallback_used |-> fallback_used,
     derived_from_text |-> FALSE, attempts |-> tasks_attempts]

DerivedDiagnostics(tasks_attempts) ==
    [keys |-> {"fallback_used", "derived_from_text", "attempts"}, fallback_used |-> FALSE,
     derived_from_text |-> TRUE, attempts |-> tasks_attempts]

\* Lines 597-622: parse_diagnostics["task_breakdown"] after the last run of
\* the phase.  The entry written when tasks are derived (lines 604-608) is
\* written again by the elif of lines 618-622 when there were two attempts.
TaskBreakdownDiagnostics(tasks, tasks_raw, tasks_attempts) ==
    LET derived_tasks == IF tasks = <<>> THEN _derive_tasks_from_text(tasks_raw) ELSE <<>>
        after_derive == IF derived_tasks # <<>> THEN DerivedDiagnostics(tasks_attempts)
                        ELSE NoDiagnostics
    IN IF tasks = <<>> /\ derived_tasks = <<>> THEN Diagnostics(TRUE, tasks_attempts)
       ELSE IF Len(tasks_attempts) > 1 THEN Diagnostics(FALSE, tasks_attempts)
       ELSE after_derive

\* Lines 571-583, or 571-634 without a retry: the first task-breakdown run is
\* over.
TasksDone ==
    /\ plan.pc = "tasks"
    /\ \E o \in Outcomes(JsonTexts(MaxLines)) :
         LET tasks_raw == _run_phase_prompt_or_empty(o)
             tasks == _parse_tasks(tasks_raw)
             heard == Append(plan.log, Gave("tasks", "tasks phase", o))
             tasks_attempts == <<_diagnostic_sample(tasks_raw)>>
         IN plan' = IF tasks_raw = Raised THEN Propagate(plan) ELSE
                    IF RetryNeeded(Len(tasks), tasks_raw)
                    THEN [plan EXCEPT !.pc = "tasks_retry",
                                      !.tasks_attempts = tasks_attempts,
                                      !.log = Append(heard, Ev("run", "tasks", "tasks retry"))]
                    ELSE Proceed([plan EXCEPT !.log = heard,
                                              !.tasks_attempts = tasks_attempts,
                                              !.task_breakdown = TaskBreakdownDiagnostics(
                                                  tasks, tasks_raw, tasks_attempts),
                                              !.tasks = TasksOrFallback(tasks, tasks_raw)],
                                 PhaseAfter("tasks"))
    /\ UNCHANGED <<executorVars, phase, limiter, resolved, assembly, sched, stream>>

\* Lines 583-634: the retry of the task breakdown is over.
TasksRetryDone ==
    /\ plan.pc = "tasks_retry"
    /\ \E o \in Outcomes(JsonTexts(MaxLines)) :
         LET tasks_raw == _run_phase_prompt_or_empty(o)
             tasks_attempts == Append(plan.tasks_attempts, _diagnostic_sample(tasks_raw))
         IN plan' = IF tasks_raw = Raised THEN Propagate(plan) ELSE
                    Proceed([plan EXCEPT
                                !.log = Append(plan.log, Gave("tasks", "tasks retry", o)),
                                !.tasks_attempts = tasks_attempts,
                                !.task_breakdown = TaskBreakdownDiagnostics(
                                    _parse_tasks(tasks_raw), tasks_raw, tasks_attempts),
                                !.tasks = TasksOrFallback(_parse_tasks(tasks_raw), tasks_raw)],
                            PhaseAfter("tasks"))
    /\ UNCHANGED <<executorVars, phase, limiter, resolved, assembly, sched, stream>>

\* s.lower().strip() on the specialties that occur (line 170).
Normalized(s) == IF s = " Python" THEN "python" ELSE s

AnyTask(t) == TRUE

\* Line 169: the tasks whose specialties count.
IsAgentTask(t) == t.task_type = "agent"

\* Lines 167-170: the non-blank specialties of the agent tasks, normalized.
DeclaredSpecialties(tasks) ==
    UNION {{Normalized(tasks[i].required_specialties[j]) :
               j \in {n \in 1..Len(tasks[i].required_specialties) :
                          tasks[i].required_specialties[n] \notin {"", " "}}} :
           i \in {n \in 1..Len(tasks) : IsAgentTask(tasks[n])}}

\* _bucket_for_specialty (lines 198-206): the first keyword group of which
\* the specialty contains a keyword. Of the specialties that occur,
\* "react" and "ui-testing" contain a frontend keyword, "ui-testing" and
\* "testing" a QA keyword and "docker" an operations keyword.
_bucket_for_specialty(s) ==
    IF s \in {"react", "ui-testing"} THEN "frontend-ui"
    ELSE IF s \in {"ui-testing", "testing"} THEN "qa-validation"
    ELSE IF s \in {"docker"} THEN "infra-ops"
    ELSE "engineering-core"

\* The keys of the buckets dict in insertion order (lines 175-196).
buckets == <<"engineering-core", "frontend-ui", "qa-validation", "infra-ops">>

\* _fallback_team_from_tasks (lines 161-241).
_fallback_team_from_tasks(tasks) ==
    LET declared == DeclaredSpecialties(tasks)
        specialties == IF declared = {} THEN {"python", "testing"} ELSE declared
        spec_list(name) == {s \in specialties : _bucket_for_specialty(s) = name}
        filled == SelectSeq(buckets, LAMBDA name : spec_list(name) # {})
        result == [i \in 1..Len(filled) |-> AgentSpec(filled[i], spec_list(filled[i]))]
    IN IF result # <<>>
       THEN result
       ELSE <<AgentSpec("execution-generalist", specialties)>>

\* Lines 655-661: the team after the last run of the phase.
TeamOrFallback(team, tasks) ==
    IF team = <<>> THEN _fallback_team_from_tasks(tasks) ELSE team

\* Lines 629-641, or 629-695 without a retry: the first team run is over.
TeamDone ==
    /\ plan.pc = "team"
    /\ \E o \in Outcomes(JsonTexts(0)) :
         LET team_raw == _run_phase_prompt_or_empty(o)
             team == _parse_team(team_raw)
             heard == Append(plan.log, Gave("team", "team phase", o))
         IN plan' = IF team_raw = Raised THEN Propagate(plan) ELSE
                    IF RetryNeeded(Len(team), team_raw)
                    THEN [plan EXCEPT !.pc = "team_retry",
                                      !.log = Append(heard, Ev("run", "team", "team retry"))]
                    ELSE Proceed([plan EXCEPT !.log = heard,
                                              !.team = TeamOrFallback(team, plan.tasks)],
                                 PhaseAfter("team"))
    /\ UNCHANGED <<executorVars, phase, limiter, resolved, assembly, sched, stream>>

\* Lines 641-695: the retry of the team assembly is over.
TeamRetryDone ==
    /\ plan.pc = "team_retry"
    /\ \E o \in Outcomes(JsonTexts(0)) :
         plan' = IF _run_phase_prompt_or_empty(o) = Raised THEN Propagate(plan) ELSE
                 Proceed([plan EXCEPT
                             !.log = Append(plan.log, Gave("team", "team retry", o)),
                             !.team = TeamOrFallback(
                                          _parse_team(_run_phase_prompt_or_empty(o)),
                                          plan.tasks)],
                         PhaseAfter("team"))
    /\ UNCHANGED <<executorVars, phase, limiter, resolved, assembly, sched, stream>>

NoPlan ==
    [pc |-> "none", research_depth |-> "none", project_description |-> "",
     log |-> <<>>, research |-> Empty, prd |-> Empty, tasks |-> <<>>,
     team |-> <<>>, result |-> NoResult, router_stopped |-> FALSE,
     tasks_attempts |-> <<>>, task_breakdown |-> NoDiagnostics]

\* ------------------------------------- plan(): fallback team and assembly
\* The end of plan() from line 655 on, for a task list of any content when
\* no team was parsed: the fallback team, then the result.
FallbackTeam ==
    /\ assembly.pc = "tasks"
    /\ assembly' = [assembly EXCEPT !.pc = "team",
                                    !.team = TeamOrFallback(<<>>, assembly.tasks)]
    /\ UNCHANGED <<executorVars, phase, limiter, resolved, plan, sched, stream>>

Assemble ==
    /\ assembly.pc = "team"
    /\ assembly' = [assembly EXCEPT
                       !.pc = "returned",
                       !.result = PlannerResult(Prose, assembly.tasks, assembly.team, Empty)]
    /\ UNCHANGED <<executorVars, phase, limiter, resolved, plan, sched, stream>>

NoAssembly == [pc |-> "none", tasks |-> <<>>, team |-> <<>>, result |-> NoResult]

\* --------------------------------------------------- DependencyScheduler
\* A project's tasks: blockers[t] is the set of keys task t is blocked by.
\* Keys above the number of tasks belong to no task.
TaskKeys == 1..(MaxSchedTasks + 1)
BlockerSets == {b \in SUBSET TaskKeys : Cardinality(b) <= MaxBlockers}
BlockerMaps == UNION {[1..n -> BlockerSets] : n \in 0..MaxSchedTasks}

\* The leveling without the overflow level.
RECURSIVE LevelingPlacedOnly(_, _, _)
LevelingPlacedOnly(blockers, placed, levels) ==
    LET next == {t \in DOMAIN blockers \ placed : blockers[t] \subseteq placed}
    IN IF next = {} THEN levels
       ELSE LevelingPlacedOnly(blockers, placed \cup next, Append(levels, next))

\* Kahn-style leveling: the tasks not yet placed whose blockers are all
\* placed form the next level; when no task can be added, the tasks left
\* over form one trailing overflow level.
RECURSIVE Leveling(_, _, _)
Leveling(blockers, placed, levels) ==
    LET left == DOMAIN blockers \ placed
        next == {t \in left : blockers[t] \subseteq placed}
    IN IF next = {}
       THEN IF left = {} THEN levels ELSE Append(levels, left)
       ELSE Leveling(blockers, placed \cup next, Append(levels, next))

GetExecutionOrderNoOverflow(blockers) == LevelingPlacedOnly(blockers, {}, <<>>)

\* DependencyScheduler.get_execution_order(tasks)
get_execution_order(blockers) == Leveling(blockers, {}, <<>>)

\* enumerate() counting from one.
TaskLevelMapFromOne(levels) ==
    [t \in UNION {levels[i] : i \in 1..Len(levels)} |->
        CHOOSE i \in 1..Len(levels) :
            t \in levels[i] /\ \A j \in (i + 1)..Len(levels) : t \notin levels[j]]

\* api.py lines 118-121: each task id of each level gets the index of the
\* level, counted from zero; a later level overwrites an earlier entry
task_level_map(levels) ==
    [t \in UNION {levels[i] : i \in 1..Len(levels)} |->
        (CHOOSE i \in 1..Len(levels) :
            t \in levels[i] /\ \A j \in (i + 1)..Len(levels) : t \notin levels[j]) - 1]

NoSched == [pc |-> "none", blockers |-> <<>>, execution_levels |-> <<>>,
            task_level_map |-> <<>>, status |-> <<>>, project_completed |-> FALSE,
            cascaded |-> {}, response |-> "none"]

\* api.py lines 117-121: get_plan computes the levels and the level map
GetPlan ==
    /\ sched.pc = "tasks"
    /\ LET execution_levels == get_execution_order(sched.blockers)
       IN sched' = [sched EXCEPT !.pc = "planned",
                                 !.execution_levels = execution_levels,
                                 !.task_level_map = task_level_map(execution_levels)]
    /\ UNCHANGED <<executorVars, phase, limiter, resolved, plan, assembly, stream>>

\* ------------------------------------------- task statuses and skip_task
\* TaskStatus values the scheduler and skip_task tell apart
Terminal == {"done", "skipped"}

\* every blocker of task t is a task in a terminal state
Satisfied(s, status, t) ==
    \A b \in s.blockers[t] : b \in DOMAIN s.blockers /\ status[b] \in Terminal

\* A dependent is released as soon as the task just finished is terminal.
CascadeAnyBlocker(s, task_id) ==
    LET status == [t \in DOMAIN s.status |->
                      IF s.status[t] = "blocked" /\ task_id \in s.blockers[t]
                      THEN "ready" ELSE s.status[t]]
    IN [s EXCEPT !.status = status,
                 !.project_completed = @ \/ \A t \in DOMAIN status : status[t] \in Terminal,
                 !.cascaded = @ \cup {task_id}]

\* What on_task_completed and on_task_skipped do for a task already stored
\* as terminal: the dependents of the task whose blockers are now all
\* terminal become ready, and the completion of the project is signalled
\* when every task is terminal.
Cascade(s, task_id) ==
    LET status == [t \in DOMAIN s.status |->
                      IF /\ s.status[t] = "blocked"
                         /\ task_id \in s.blockers[t]
                         /\ Satisfied(s, s.status, t)
                      THEN "ready" ELSE s.status[t]]
    IN [s EXCEPT !.status = status,
                 !.project_completed = @ \/ \A t \in DOMAIN status : status[t] \in Terminal,
                 !.cascaded = @ \cup {task_id}]

on_task_completed(s, task_id) == Cascade(s, task_id)
on_task_skipped(s, task_id) == Cascade(s, task_id)

SchedUnchanged == UNCHANGED <<executorVars, phase, limiter, resolved, plan, assembly, stream>>

\* the executor takes a ready task
StartTask(t) ==
    /\ sched.pc = "running"
    /\ sched.status[t] = "ready"
    /\ sched' = [sched EXCEPT !.status[t] = "in_progress", !.response = "none"]
    /\ SchedUnchanged

\* the executor finishes a task and tells the scheduler
TaskDone(t) ==
    /\ sched.pc = "running"
    /\ sched.status[t] = "in_progress"
    /\ sched' = on_task_completed([sched EXCEPT !.status[t] = "done", !.response = "none"], t)
    /\ SchedUnchanged

\* a task that will not run is dropped and the scheduler is told
TaskSkipped(t) ==
    /\ sched.pc = "running"
    /\ sched.status[t] \in {"blocked", "ready"}
    /\ sched' = on_task_skipped([sched EXCEPT !.status[t] = "skipped", !.response = "none"], t)
    /\ SchedUnchanged

\* either operation is called for a task that is terminal already
OnTaskAgain(t) ==
    /\ sched.pc = "running"
    /\ sched.status[t] \in Terminal
    /\ \/ sched' = on_task_completed([sched EXCEPT !.response = "none"], t)
       \/ sched' = on_task_skipped([sched EXCEPT !.response = "none"], t)
    /\ SchedUnchanged

ThisProject == "p1"
ProjectIds == {"p1", "p2"}

\* Only a finished task is refused.
SkippableUnlessDone(status) == status # "done"

\* api.py lines 203-206
Skippable(status) == status \notin {"done", "skipped", "in_progress"}

\* api.py lines 186-229: POST /projects/{project_id}/tasks/{task_id}/skip
skip_task(project_id, task_id) ==
    /\ sched.pc = "running"
    /\ IF task_id \notin DOMAIN sched.status
       THEN sched' = [sched EXCEPT !.response = "404"]
       ELSE IF project_id # ThisProject \/ ~Skippable(sched.status[task_id])
       THEN sched' = [sched EXCEPT !.response = "400"]
       ELSE LET saved == [sched EXCEPT !.status[task_id] = "skipped",
                                       !.response = "success"]
            IN \/ sched' = on_task_completed(saved, task_id)
               \/ sched' = saved      \* lines 219-220: the cascade raised
    /\ SchedUnchanged

\* ---------------------------------------------------------- specifications
\* Settings: a registry of n enabled entries (the id of an entry is its
\* position) with k keys each.
FullRegistry(n, k) ==
    [i \in 1..n |-> [enabled |-> TRUE, model |-> TRUE, keys |-> [j \in 1..k |-> j]]]

NoPool == [provider |-> "ollama", keys |-> <<>>]

RegistryAuto == [kind |-> "registry_auto", id |-> 0]

BuiltinSettings ==
    [selected |-> [kind |-> "auto", id |-> 0], mode |-> "selected", registry |-> <<>>,
     pool |-> NoPool]

RunSettings ==
    {[selected |-> RegistryAuto, mode |-> m, registry |-> FullRegistry(n, 1),
      pool |-> NoPool] : m \in Modes, n \in 2..MaxProviders}
    \cup {[selected |-> [kind |-> "custom", id |-> 1], mode |-> "selected",
           registry |-> FullRegistry(1, k), pool |-> NoPool] : k \in {1, MaxKeys}}
    \cup {BuiltinSettings,
           [BuiltinSettings EXCEPT !.pool = [provider |-> "groq", keys |-> <<1, 1, 2>>]]}

InitState(S, idx, obs) ==
    /\ settings = S
    /\ observed = obs
    /\ stop_flag = FALSE
    /\ semaphore = 0
    /\ active_executor_future = 0
    /\ provider_rr_index = idx
    /\ provider_key_indices = [i \in 1..MaxProviders |-> 0]
    /\ pool_key_index = [groq |-> 0, openai |-> 0]
    /\ gen = [c \in Calls |-> "new"]
    /\ executor_future = [c \in Calls |-> "none"]
    /\ llm_cfg = [c \in Calls |-> NoConfig]
    /\ idle_timeouts = [c \in Calls |-> 0]
    /\ aborted_on_idle_timeout = [c \in Calls |-> FALSE]
    /\ chunk_queue = [c \in Calls |-> <<>>]
    /\ worker = [c \in Calls |-> "none"]
    /\ site = [c \in Calls |-> "try"]
    /\ emitted_chunks = [c \in Calls |-> 0]
    /\ current_message = [c \in Calls |-> FALSE]
    /\ stop_seen = [c \in Calls |-> FALSE]
    /\ can_failover = [c \in Calls |-> FALSE]
    /\ delivered = [c \in Calls |-> <<>>]
    /\ trace = [c \in Calls |-> <<>>]
    /\ first_outcome = [c \in Calls |-> NoOutcome]
    /\ since_event = [c \in Calls |-> 0]
    /\ own_events = [c \in Calls |-> {}]
    /\ session_reset = FALSE

\* One run() call on a fresh executor, with the worker's history recorded.
Init ==
    /\ \E S \in RunSettings, idx \in 0..MaxIndex : InitState(S, idx, {1})
    /\ phase = NoPhase
    /\ limiter = NoLimiter
    /\ resolved = <<>>
    /\ plan = NoPlan
    /\ assembly = NoAssembly
    /\ sched = NoSched
    /\ stream = NoStream

Next ==
    \/ Request(1)
    \/ Acquire(1)
    \/ GetChunk(1)
    \/ IdleTimeout(1)
    \/ Resume(1)
    \/ AwaitWorker(1)
    \/ Abandon(1)
    \/ Stop
    \/ WChunk(1)
    \/ WStreamEnd(1)
    \/ WRaise(1)
    \/ Release(1)

Spec == Init /\ [][Next]_vars

\* Several run() calls on one executor (built-in provider, no registry).
InitCalls ==
    /\ InitState(BuiltinSettings, 0, {})
    /\ phase = NoPhase
    /\ limiter = NoLimiter
    /\ resolved = <<>>
    /\ plan = NoPlan
    /\ assembly = NoAssembly
    /\ sched = NoSched
    /\ stream = NoStream

NextCalls ==
    \/ \E c \in Calls : Request(c)
    \/ \E c \in Calls : Acquire(c)
    \/ \E c \in Calls : SoftWaitDone(c)
    \/ \E c \in Calls : SoftWaitTimeout(c)
    \/ \E c \in Calls : GetChunk(c)
    \/ \E c \in Calls : IdleTimeout(c)
    \/ \E c \in Calls : Resume(c)
    \/ \E c \in Calls : AwaitWorker(c)
    \/ \E c \in Calls : Abandon(c)
    \/ Stop
    \/ \E c \in Calls : WChunk(c)
    \/ \E c \in Calls : WStreamEnd(c)
    \/ \E c \in Calls : WRaise(c)
    \/ \E c \in Calls : Release(c)

SpecCalls == InitCalls /\ [][NextCalls]_vars

\* One phase run of the planner over a stream.
InitPhase ==
    /\ InitState(BuiltinSettings, 0, {})
    /\ \E b \in {"open_interpreter", "claude_agent_sdk"}, name \in PhaseNames,
          filled_in_mentions_json \in BOOLEAN :
         phase = [NoPhase EXCEPT !.pc = "top", !.backend = b, !.name = name,
                                 !.expect_json = ExpectJson(name, filled_in_mentions_json)]
    /\ limiter = NoLimiter
    /\ resolved = <<>>
    /\ plan = NoPlan
    /\ assembly = NoAssembly
    /\ sched = NoSched
    /\ stream = NoStream

NextPhase == PhaseTop \/ PhaseChunk \/ PhaseStreamEnd \/ PhaseIdle

SpecPhase == InitPhase /\ [][NextPhase]_vars

\* One phase run seen through the contents of its message chunks.
InitStream ==
    /\ InitState(BuiltinSettings, 0, {})
    /\ phase = NoPhase
    /\ limiter = NoLimiter
    /\ resolved = <<>>
    /\ plan = NoPlan
    /\ assembly = NoAssembly
    /\ sched = NoSched
    /\ \E family \in {"prose", "json"}, j \in BOOLEAN :
         /\ family = "json" => j
         /\ stream = [NoStream EXCEPT !.pc = "top", !.family = family, !.expect_json = j]

NextStream == StreamChunk \/ StreamEnd

SpecStream == InitStream /\ [][NextStream]_vars

\* A call of _resolve_runtime_llm (lines 266-298), with the counters before
\* and after it.
Resolve(on_error) ==
    /\ Len(resolved) < MaxResolves
    /\ LET r == _resolve_runtime_llm(settings, provider_rr_index, provider_key_indices,
                                     pool_key_index, on_error)
       IN /\ provider_rr_index' = r.idx
          /\ provider_key_indices' = r.kidx
          /\ pool_key_index' = r.pidx
          /\ resolved' = Append(resolved,
                 [on_error |-> on_error, cfg |-> r.cfg,
                  idx |-> provider_rr_index, idx2 |-> r.idx,
                  kidx |-> provider_key_indices, kidx2 |-> r.kidx,
                  pidx |-> pool_key_index, pidx2 |-> r.pidx])
    /\ UNCHANGED <<settings, observed, stop_flag, semaphore, active_executor_future,
                   genVars, workerVars, executor_future, llm_cfg, chunk_queue,
                   session_reset, phase, limiter, plan, assembly, sched, stream>>

\* Registry entries: usable with MaxKeys keys, disabled, without a model, with
\* a key listed twice, without keys.
EntryKinds ==
    {[enabled |-> TRUE, model |-> TRUE, keys |-> [j \in 1..MaxKeys |-> j]],
     [enabled |-> FALSE, model |-> TRUE, keys |-> <<1>>],
     [enabled |-> TRUE, model |-> FALSE, keys |-> <<1>>],
     [enabled |-> TRUE, model |-> TRUE, keys |-> <<1>> \o [j \in 1..MaxKeys |-> j]],
     [enabled |-> TRUE, model |-> TRUE, keys |-> <<>>]}

Registries == UNION {[1..n -> EntryKinds] : n \in 0..MaxProviders}

\* The configured key pools of the built-in providers (lines 383-431).
Pools ==
    {[provider |-> p, keys |-> k] :
        p \in {"groq", "openai", "ollama"},
        k \in {<<>>, <<1>>, [j \in 1..MaxKeys |-> j], <<1>> \o [j \in 1..MaxKeys |-> j]}}

RegistrySettings ==
    {[selected |-> RegistryAuto, mode |-> m, registry |-> reg, pool |-> NoPool] :
        m \in Modes, reg \in Registries}
    \cup {[selected |-> [kind |-> "custom", id |-> i], mode |-> "selected",
           registry |-> reg, pool |-> NoPool] : i \in 1..MaxProviders, reg \in Registries}
    \cup {[BuiltinSettings EXCEPT !.pool = q] : q \in Pools}

\* Calls of the resolver on a fresh executor.
InitRegistry ==
    /\ \E S \in RegistrySettings : InitState(S, 0, {})
    /\ phase = NoPhase
    /\ limiter = NoLimiter
    /\ resolved = <<>>
    /\ plan = NoPlan
    /\ assembly = NoAssembly
    /\ sched = NoSched
    /\ stream = NoStream

NextRegistry == \E on_error \in BOOLEAN : Resolve(on_error)

SpecRegistry == InitRegistry /\ [][NextRegistry]_vars

\* The rate limiter called by the worker threads of one executor.
InitPacing ==
    /\ InitState(BuiltinSettings, 0, {})
    /\ phase = NoPhase
    /\ resolved = <<>>
    /\ plan = NoPlan
    /\ assembly = NoAssembly
    /\ sched = NoSched
    /\ stream = NoStream
    /\ \E n \in 0..MaxLimit : limiter = [NoLimiter EXCEPT !.clock = 1, !.limit = n]

NextPacing ==
    \/ \E t \in Threads : EnforceEnter(t)
    \/ \E t \in Threads : Wake(t)
    \/ \E t \in Threads : EnforceCheck(t)
    \/ \E t \in Threads : EnforceRecheck(t)
    \/ \E t \in Threads : EnforceAppend(t)
    \/ Tick

SpecPacing == InitPacing /\ [][NextPacing]_vars

\* One call of plan() with any research depth and description.
InitPlan ==
    /\ InitState(BuiltinSettings, 0, {})
    /\ phase = NoPhase
    /\ limiter = NoLimiter
    /\ resolved = <<>>
    /\ assembly = NoAssembly
    /\ sched = NoSched
    /\ stream = NoStream
    /\ \E depth \in {"none", "quick", "standard", "deep"}, d \in {"", "description"} :
         plan = [NoPlan EXCEPT !.pc = "start", !.research_depth = depth,
                               !.project_description = d]

NextPlan ==
    \/ PlanStart
    \/ ResearchDone
    \/ PrdDone
    \/ TasksDone
    \/ TasksRetryDone
    \/ TeamDone
    \/ TeamRetryDone

SpecPlan == InitPlan /\ [][NextPlan]_vars

\* The specialty lists a task may declare: none, one, several, one that
\* needs normalizing, a blank one, one with keywords of two groups.
SpecialtyLists ==
    {<<>>, <<"python">>, <<" Python", "react">>, <<"testing", "docker">>, <<" ">>,
     <<"ui-testing">>}

\* Task lists of at most MaxTasks tasks with distinct keys: any types and
\* specialties, or any types, estimates and blockers (also the task itself
\* and a key that no task has).
TaskLists ==
    UNION {[1..n -> [task_type : {"agent", "human"}, required_specialties : SpecialtyLists,
                     estimated_minutes : {30}, blocked_by_keys : {<<>>}]]
           \cup [1..n -> [task_type : {"agent", "human"}, required_specialties : {<<"python">>},
                          estimated_minutes : {0, 30},
                          blocked_by_keys : {<<>>, <<1>>, <<1, MaxTasks + 1>>}]] :
           n \in 0..MaxTasks}

InitAssembly ==
    /\ InitState(BuiltinSettings, 0, {})
    /\ phase = NoPhase
    /\ limiter = NoLimiter
    /\ resolved = <<>>
    /\ plan = NoPlan
    /\ sched = NoSched
    /\ stream = NoStream
    /\ \E list \in TaskLists :
         assembly = [NoAssembly EXCEPT
                        !.pc = "tasks",
                        !.tasks = [i \in 1..Len(list) |->
                                      TaskSpec(i, list[i].task_type,
                                               list[i].required_specialties,
                                               list[i].estimated_minutes,
                                               list[i].blocked_by_keys)]]

NextAssembly == FallbackTeam \/ Assemble

SpecAssembly == InitAssembly /\ [][NextAssembly]_vars

\* get_plan on the task list of a project
InitOrder ==
    /\ InitState(BuiltinSettings, 0, {})
    /\ phase = NoPhase
    /\ limiter = NoLimiter
    /\ resolved = <<>>
    /\ plan = NoPlan
    /\ assembly = NoAssembly
    /\ stream = NoStream
    /\ \E blockers \in BlockerMaps : sched = [NoSched EXCEPT !.pc = "tasks", !.blockers = blockers]

NextOrder == GetPlan

SpecOrder == InitOrder /\ [][NextOrder]_vars

\* the tasks of a project in execution: a task is blocked by tasks before
\* it in the list; the first task may be blocked by a key no task has
RunningProjects ==
    {b \in [1..MaxSchedTasks -> SUBSET TaskKeys] :
        /\ b[1] \subseteq {MaxSchedTasks + 1}
        /\ \A t \in 2..MaxSchedTasks : b[t] \subseteq 1..(t - 1)}

InitSched ==
    /\ InitState(BuiltinSettings, 0, {})
    /\ phase = NoPhase
    /\ limiter = NoLimiter
    /\ resolved = <<>>
    /\ plan = NoPlan
    /\ assembly = NoAssembly
    /\ stream = NoStream
    /\ \E blockers \in RunningProjects :
           sched = [NoSched EXCEPT
                       !.pc = "running",
                       !.blockers = blockers,
                       !.status = [t \in DOMAIN blockers |->
                                      IF blockers[t] = {} THEN "ready" ELSE "blocked"]]

NextSched ==
    \/ \E t \in 1..MaxSchedTasks : StartTask(t) \/ TaskDone(t) \/ TaskSkipped(t) \/ OnTaskAgain(t)
    \/ \E project_id \in ProjectIds, task_id \in TaskKeys : skip_task(project_id, task_id)

SpecSched == InitSched /\ [][NextSched]_vars


\* ------------------------------------------------------------------ claims
Chats(c) == {i \in 1..Len(trace[c]) : trace[c][i].op = "chat"}
Enforces(c) == {i \in 1..Len(trace[c]) : trace[c][i].op = "enforce"}
Resolves(c) == {i \in 1..Len(trace[c]) : trace[c][i].op = "resolve"}
\* the worker events of a run that were put on the queue or handed to the caller
Handed(c) == delivered[c] \o SelectSeq(chunk_queue[c], LAMBDA e : e # EndMarker)
TrackedPending ==
    active_executor_future # 0 /\ executor_future[active_executor_future] = "pending"

\* C1: on one executor instance at most one worker started by run() is alive
\* at any time.
C1_OneWorkerAlive == Cardinality({c \in Calls : Alive(c)}) <= 1

\* C2 (as stated): a run() requested while a prior run is in progress is never
\* held waiting for the prior run: no call waits for a semaphore that is held.
C2_NeverQueued == \A c \in Calls : ~(gen[c] = "acquire" /\ semaphore # 0)

\* C2 (amended): a run() that holds the semaphore and finds the tracked future
\* of the previous worker not done leaves the bounded wait either by starting
\* its worker, once that future is done, or by the busy error, with no worker
\* started; no worker is started while the tracked future is not done, and
\* only by the call that holds the semaphore.
C2_Admission ==
    [][\A c \in Calls :
        /\ (gen[c] = "softwait" /\ gen'[c] # "softwait") =>
               \/ gen'[c] = "busy" /\ TrackedPending /\ worker'[c] = "none"
               \/ gen'[c] = "get" /\ ~TrackedPending /\ worker'[c] = "chat"
               \/ gen'[c] = "closed" /\ worker'[c] = "none"
        /\ (gen[c] = "busy") => worker'[c] = "none"
        /\ (worker[c] = "none" /\ worker'[c] # "none") =>
               ~TrackedPending /\ semaphore' = c]_vars

C2_Witness ==
    \E c \in Calls : gen[c] = "busy" /\ worker[c] = "none" /\ \E d \in Calls : Alive(d)

\* C3: the worker events delivered to the caller are a prefix of the events
\* the worker produced, in the order produced, none twice, none lost.
C3_Order ==
    \A c \in Calls :
        gen[c] \notin {"new", "closed"} =>
            /\ Len(Handed(c)) = emitted_chunks[c]
            /\ \A i \in 1..Len(Handed(c)) : Handed(c)[i].n = i

C3_Witness == \E c \in Calls : Len(delivered[c]) >= 2

\* C4: a run is aborted on idle exactly when max_idle_timeouts consecutive idle
\* periods passed with the worker alive and no event received; every event
\* received restarts the count; after the abort's error event nothing more is
\* delivered.
C4_IdleAbort ==
    /\ [](\A c \in Calls :
            /\ aborted_on_idle_timeout[c] => since_event[c] = max_idle_timeouts
            /\ gen[c] = "get" => since_event[c] < max_idle_timeouts)
    /\ [][\A c \in Calls :
            aborted_on_idle_timeout[c] =>
                /\ gen'[c] \in {"yield_abort", "abortwait", "closed"}
                /\ gen[c] # "closed" => delivered'[c] = delivered[c]]_vars

C4_Witness ==
    \E c \in Calls :
        gen[c] = "yield_abort" /\ aborted_on_idle_timeout[c] /\ delivered[c] # <<>>

\* C5: an idle abort sets the stop flag, asks the provider session to reset
\* and emits the terminal error event.
C5_AbortSteps ==
    \A c \in Calls : gen[c] = "yield_abort" => stop_flag /\ session_reset

C7_AtMostTwo == \A c \in Calls : Cardinality(Chats(c)) <= 2

C7_Witness ==
    \E c \in Calls :
        /\ worker[c] = "exited"
        /\ Cardinality(Chats(c)) = 2
        /\ \E i \in 1..Len(chunk_queue[c]) : chunk_queue[c][i].type = "error"

\* C8 (as stated): a failover retry is attempted only when has_fallback is true.
C8_OnlyWithFallback == \A c \in Calls : Resolves(c) # {} => can_failover[c]

\* C8 (amended): a retry is attempted only when has_fallback is true or the
\* first attempt raised a transient-vocabulary exception that is not
\* quota-like; without fallback, a run that completes with zero events or
\* raises a quota-like exception ends with an error event, one provider
\* invocation and no re-resolution.
C8_RetryCondition ==
    \A c \in Calls :
        LET fo == first_outcome[c]
        IN /\ Resolves(c) # {} =>
                  \/ can_failover[c]
                  \/ /\ fo.raised
                     /\ fo.err \cap TransientVocabulary # {}
                     /\ fo.err \cap {"quota", "insufficient_quota", "max budget",
                                     "billing", "credit"} = {}
           /\ ( /\ worker[c] = "exited" /\ gen[c] # "closed"
                /\ ~can_failover[c] /\ fo.ended
                /\ \/ ~fo.raised /\ fo.empty
                   \/ fo.raised /\ fo.err \cap {"quota", "insufficient_quota",
                                                "max budget", "billing", "credit"} # {} )
              => /\ Cardinality(Chats(c)) = 1
                 /\ Resolves(c) = {}
                 /\ \E i \in 1..Len(Handed(c)) : Handed(c)[i].type = "error"

C8_Witness ==
    \E c \in Calls :
        /\ worker[c] = "exited" /\ ~can_failover[c]
        /\ first_outcome[c].raised /\ "quota" \in first_outcome[c].err
        /\ Cardinality(Chats(c)) = 1

\* C9: under registry_auto with mode round_robin or failover and at least two
\* enabled entries, the retry resolves a different registry entry than the one
\* the failed attempt used.
C9_RetryDiffers ==
    \A c \in Calls :
        \A i \in Resolves(c) :
            ( /\ settings.selected.kind = "registry_auto"
              /\ settings.mode \in {"round_robin", "failover"}
              /\ Len(EnabledIds(settings.registry)) >= 2 )
            => trace[c][i].provider_id # trace[c][i - 1].provider_id

\* C10: every provider invocation is immediately preceded by its own
\* rate-limiter call, and there are as many rate-limiter calls as invocations.
C10_Paced ==
    \A c \in Calls :
        /\ \A i \in Chats(c) : i > 1 /\ trace[c][i - 1].op = "enforce"
        /\ Cardinality(Enforces(c)) = Cardinality(Chats(c))

C10_Witness == \E c \in Calls : Cardinality(Chats(c)) = 2 /\ Resolves(c) # {}

\* C11: with a cap of N > 0 requests per minute, no more than N calls of the
\* limiter return within any 60-second window, and the timestamp FIFO never
\* holds more than N entries.
C11_WindowCap ==
    limiter.limit > 0 =>
        /\ Len(limiter.request_times) <= limiter.limit
        /\ \A i \in 1..Len(limiter.returns) :
               i + limiter.limit <= Len(limiter.returns) =>
                   limiter.returns[i + limiter.limit] - limiter.returns[i] >= window

\* the resolver's inputs, read from the settings alone
AutoRotating(mode) == settings.selected.kind = "registry_auto" /\ settings.mode = mode
EnabledSet == {i \in 1..Len(settings.registry) : settings.registry[i].enabled}
\* the enabled entry after p in registry order, cyclically
NextEnabled(p) ==
    IF \E q \in EnabledSet : q > p
    THEN CHOOSE q \in EnabledSet : q > p /\ \A u \in EnabledSet : u > p => q <= u
    ELSE CHOOSE q \in EnabledSet : \A u \in EnabledSet : q <= u
\* the calls i..i+n-1 were all made without on_error
PlainRun(i, n) ==
    /\ n >= 1 /\ i + n - 1 <= Len(resolved)
    /\ \A j \in i..(i + n - 1) : ~resolved[j].on_error

\* C12: under registry_auto with mode failover, resolve calls without on_error
\* leave the provider index unchanged and all return the same registry entry.
C12_FailoverSticky ==
    AutoRotating("failover") =>
        \A i \in 1..Len(resolved) :
            ~resolved[i].on_error =>
                /\ resolved[i].idx2 = resolved[i].idx
                /\ PlainRun(i, 2) => resolved[i + 1].cfg = resolved[i].cfg

\* C13, first part of the statement and of the amended one: n consecutive
\* resolve calls without on_error return each enabled entry once, in registry
\* order, cyclically.
RoundRobinOrder ==
    LET n == Cardinality(EnabledSet)
    IN \A i \in 1..Len(resolved) :
           PlainRun(i, n) =>
               /\ {resolved[j].cfg.provider_id : j \in i..(i + n - 1)} = EnabledSet
               /\ \A j \in i..(i + n - 2) :
                      resolved[j + 1].cfg.provider_id = NextEnabled(resolved[j].cfg.provider_id)

C14_KeyRoundRobin ==
    \A p \in 1..Len(settings.registry) :
        LET keys == settings.registry[p].keys
            k == Cardinality({keys[j] : j \in 1..Len(keys)})
        IN \A i \in 1..Len(resolved) :
               /\ ( /\ k >= 1 /\ i + k - 1 <= Len(resolved)
                    /\ \A j \in i..(i + k - 1) : resolved[j].cfg.provider_id = p )
                  => Cardinality({resolved[j].cfg.api_key : j \in i..(i + k - 1)}) = k
               /\ (resolved[i].cfg.provider_id = p /\ k = 0) => resolved[i].cfg.api_key = 0
               /\ resolved[i].cfg.provider_id = p =>
                      \A q \in 1..MaxProviders :
                          q # p => resolved[i].kidx2[q] = resolved[i].kidx[q]

\* C15 (as stated): every resolve call advances the provider index or a key
\* index.
C15_AlwaysAdvances ==
    \A i \in 1..Len(resolved) :
        \/ resolved[i].idx2 # resolved[i].idx
        \/ resolved[i].kidx2 # resolved[i].kidx
        \/ resolved[i].pidx2 # resolved[i].pidx

\* C15 (amended): a resolve call advances the provider index by one exactly
\* under registry_auto with a rotating mode and an enabled entry; it advances
\* by one the key index of the registry entry it returns when that entry has
\* keys, and the key index of the built-in groq or openai pool it returns a key
\* of; no counter ever goes back; nothing else is needed for the advance.
C15_AdvanceRule ==
    \A i \in 1..Len(resolved) :
        LET e == resolved[i]
            p == e.cfg.provider_id
            rotating == /\ settings.selected.kind = "registry_auto"
                        /\ settings.mode \in {"round_robin", "failover"}
                        /\ EnabledSet # {}
        IN /\ e.idx2 = IF rotating THEN e.idx + 1 ELSE e.idx
           /\ p # 0 => e.kidx2[p] =
                  IF settings.registry[p].keys # <<>> THEN e.kidx[p] + 1 ELSE e.kidx[p]
           /\ (p = 0 /\ e.cfg.api_key # 0) =>
                  e.pidx2[BuiltinProvider(settings)] = e.pidx[BuiltinProvider(settings)] + 1
           /\ \A q \in 1..MaxProviders : e.kidx2[q] >= e.kidx[q]
           /\ e.pidx2.groq >= e.pidx.groq /\ e.pidx2.openai >= e.pidx.openai

C15_Witness ==
    /\ Len(resolved) >= 2
    /\ resolved[2].on_error
    /\ resolved[2].idx2 = resolved[2].idx
    /\ resolved[2].cfg.provider_id # 0
    /\ resolved[2].kidx2 # resolved[2].kidx

\* ---- plan()
RunsOf(ph) == {i \in 1..Len(plan.log) : plan.log[i].op = "run" /\ plan.log[i].phase = ph}

PlanRuns == {i \in 1..Len(plan.log) : plan.log[i].op = "run"}

PhaseRank(ph) ==
    CASE ph = "research" -> 1 [] ph = "prd" -> 2 [] ph = "tasks" -> 3 [] ph = "team" -> 4

\* C16: the executor runs of plan() come in the order research (unless the
\* depth is none), PRD, task breakdown, team assembly: a run of an earlier
\* phase never follows a run of a later one (so a retry precedes the next
\* phase), every run has given its text before the next run starts, the
\* first run is the research run unless research is skipped, and at the
\* return every phase has run and no run is pending.
C16_PhaseOrder ==
    /\ \A i, j \in PlanRuns :
           i < j => PhaseRank(plan.log[i].phase) <= PhaseRank(plan.log[j].phase)
    /\ \A i \in PlanRuns :
           i < Len(plan.log) => /\ plan.log[i + 1].op = "text"
                                /\ plan.log[i + 1].context = plan.log[i].context
    /\ \A i \in PlanRuns :
           (\A j \in PlanRuns : i <= j) =>
               plan.log[i].phase = IF plan.research_depth = "none" THEN "prd" ELSE "research"
    /\ plan.pc = "returned" =>
           /\ plan.log[Len(plan.log)].op = "text"
           /\ \A ph \in {"prd", "tasks", "team"} : RunsOf(ph) # {}

C16_Witness ==
    /\ plan.pc = "returned"
    /\ plan.research_depth = "standard"
    /\ Cardinality(RunsOf("research")) = 1
    /\ Cardinality(RunsOf("tasks")) = 2
    /\ Cardinality(RunsOf("team")) = 2

\* C17: with research_depth none, plan() starts no executor run and
\* publishes no progress event for the research phase, the research notes
\* are the empty string in every later prompt and in the result, and the
\* PRD, task-breakdown and team phases have each run when plan() returns.
C17_ResearchSkipped ==
    plan.research_depth = "none" =>
        /\ \A i \in 1..Len(plan.log) : plan.log[i].phase # "research"
        /\ plan.research = Empty
        /\ plan.pc = "returned" =>
               /\ plan.result.research_notes = Empty
               /\ \A ph \in {"prd", "tasks", "team"} :
                      /\ RunsOf(ph) # {}
                      /\ \E i \in 1..Len(plan.log) :
                             plan.log[i].op = "broadcast" /\ plan.log[i].phase = ph

C17_Witness ==
    /\ plan.research_depth = "none"
    /\ plan.pc = "returned"
    /\ plan.result.prd_content.kind = "body"

PrdGiven == {i \in 1..Len(plan.log) : plan.log[i].op = "text" /\ plan.log[i].phase = "prd"}

\* C18: once the PRD run is over, whatever it gave, the PRD text used by the
\* later phases and returned in the result is neither empty nor blank: it is
\* the text of the run when that text is usable, and otherwise (empty or
\* whitespace-only text, error event, stall, timeout) the template built
\* from the description and the research notes.
C18_PrdNonEmpty ==
    /\ \A i \in PrdGiven :
           /\ plan.prd.kind \in {"body", "template"}
           /\ plan.log[i].usable => plan.prd.kind = "body"
           /\ ~plan.log[i].usable =>
                  plan.prd = [kind |-> "template", summary |-> plan.project_description,
                              excerpt |-> plan.research]
    /\ plan.pc = "returned" =>
           /\ PrdGiven # {}
           /\ plan.result.prd_content = plan.prd

C18_Witness ==
    /\ plan.pc = "returned"
    /\ \E i \in PrdGiven : plan.log[i].raised
    /\ plan.result.prd_content.kind = "template"
    /\ plan.result.prd_content.excerpt.kind = "body"

Given(context) ==
    {i \in 1..Len(plan.log) : plan.log[i].op = "text" /\ plan.log[i].context = context}

BothUnparsable ==
    /\ \E i \in Given("tasks phase") : ~plan.log[i].parsed
    /\ \E i \in Given("tasks retry") : ~plan.log[i].parsed

IsChain(tasks) ==
    /\ Len(tasks) >= 2
    /\ tasks[1].blocked_by_keys = <<>>
    /\ \A i \in 2..Len(tasks) : tasks[i].blocked_by_keys = <<tasks[i - 1].key>>
    /\ \A i, j \in 1..Len(tasks) : tasks[i].key = tasks[j].key => i = j
    /\ \A i \in 1..Len(tasks) : tasks[i].task_type = "human" <=> i = Len(tasks)

\* C19: when neither the first task-breakdown run nor its retry gave a
\* parsable list, the task list is non-empty and is one chain: the first
\* task has no blockers, every later task is blocked by exactly the task
\* before it, and the last task is the only human task. The result splits
\* it into the agent tasks and that one human task.
C19_FallbackChain ==
    BothUnparsable =>
        /\ IsChain(plan.tasks)
        /\ Len(plan.tasks) <= max_derived + 1
        /\ plan.pc = "returned" =>
               /\ Len(plan.result.human_tasks) = 1
               /\ plan.result.tasks \o plan.result.human_tasks = plan.tasks

C19_Witness ==
    /\ BothUnparsable
    /\ plan.pc = "returned"
    /\ Len(plan.result.tasks) = max_derived

C19_WitnessFallback ==
    /\ BothUnparsable
    /\ plan.pc = "returned"
    /\ plan.result.tasks \o plan.result.human_tasks = _fallback_tasks_from_context

\* C20: the task breakdown and the team assembly each make at most two
\* executor runs (the first attempt and one retry), a retry run is started
\* only when the first attempt of its phase gave no parsed item, and one
\* plan() makes at most six runs.
C20_RetryOnlyAfterFailure ==
    /\ \A ph \in {"tasks", "team"} :
           /\ Cardinality(RunsOf(ph)) <= 2
           /\ \A i \in RunsOf(ph) :
                  plan.log[i].context = ph \o " retry" =>
                      \E j \in Given(ph \o " phase") : j < i /\ ~plan.log[j].parsed
    /\ Cardinality(PlanRuns) <= 6

\* ---- fallback team and assembly
AgentTasks == {i \in 1..Len(assembly.tasks) : assembly.tasks[i].task_type = "agent"}

\* The specialties the agent tasks declare, as written.
DeclaredRaw ==
    UNION {{assembly.tasks[i].required_specialties[j] :
               j \in 1..Len(assembly.tasks[i].required_specialties)} : i \in AgentTasks}

\* The same, blank ones dropped and the others lower-cased and trimmed.
DeclaredLower ==
    {IF r = " Python" THEN "python" ELSE r : r \in DeclaredRaw \ {"", " "}}

Produced == UNION {assembly.team[i].specialties : i \in 1..Len(assembly.team)}

Named(name) == {i \in 1..Len(assembly.team) : assembly.team[i].name = name}

\* C22: in the fallback team every role bucket that received a specialty is
\* exactly one AgentSpec and every other bucket is none, and when the agent
\* tasks declare no specialty the team is exactly one AgentSpec, the
\* generalist.
C22_BucketsOrGeneralist ==
    assembly.pc \in {"team", "returned"} =>
        /\ DeclaredLower # {} =>
               /\ \A i \in 1..Len(assembly.team) :
                      assembly.team[i].name \in
                          {"engineering-core", "frontend-ui", "qa-validation", "infra-ops"}
               /\ \A i, j \in 1..Len(assembly.team) :
                      assembly.team[i].name = assembly.team[j].name => i = j
               /\ \A i, j \in 1..Len(assembly.team) :
                      i # j => assembly.team[i].specialties \cap assembly.team[j].specialties = {}
        /\ DeclaredLower = {} =>
               /\ Len(assembly.team) = 1
               /\ assembly.team[1].name = "execution-generalist"

AllRaised ==
    \A i \in 1..Len(plan.log) : plan.log[i].op = "text" => plan.log[i].raised

RECURSIVE MinutesUpTo(_)
MinutesUpTo(n) ==
    IF n = 0 THEN 0 ELSE assembly.tasks[n].estimated_minutes + MinutesUpTo(n - 1)

InList(list, t) == \E i \in 1..Len(list) : list[i] = t

\* C24: in the result, every task is in exactly one of the agent-task list
\* and the human-task list, in the human one exactly when its task_type is
\* human, and the lists hold nothing else; the dependency graph has an entry
\* exactly for the keys of the tasks with blockers, giving those blockers;
\* the total is the sum of the estimates of all tasks.
C24_Assembly ==
    assembly.pc = "returned" =>
        LET res == assembly.result
            all == assembly.tasks
        IN /\ \A i \in 1..Len(all) :
                  /\ InList(res.human_tasks, all[i]) <=> all[i].task_type = "human"
                  /\ InList(res.tasks, all[i]) <=> all[i].task_type # "human"
           /\ Len(res.tasks) + Len(res.human_tasks) = Len(all)
           /\ DOMAIN res.dependency_graph =
                  {all[i].key : i \in {n \in 1..Len(all) : all[n].blocked_by_keys # <<>>}}
           /\ \A i \in 1..Len(all) :
                  all[i].blocked_by_keys # <<>> =>
                      res.dependency_graph[all[i].key] = all[i].blocked_by_keys
           /\ res.estimated_total_minutes = MinutesUpTo(Len(all))

C24_Witness ==
    /\ assembly.pc = "returned"
    /\ Len(assembly.result.human_tasks) = 1
    /\ Len(assembly.result.tasks) = 2
    /\ assembly.result.estimated_total_minutes = 60
    /\ Cardinality(DOMAIN assembly.result.dependency_graph) = 2

SchedTasks == DOMAIN sched.blockers
Levels == sched.execution_levels
LevelsOf(t) == {i \in 1..Len(Levels) : t \in Levels[i]}
Earlier(i) == UNION {Levels[j] : j \in 1..(i - 1)}
\* every task of level i has all its blockers in strictly earlier levels
LevelSettled(i) == \A t \in Levels[i] : sched.blockers[t] \subseteq Earlier(i)
\* the last level, when a task in it has a blocker outside the earlier levels
IsOverflow(i) == i = Len(Levels) /\ ~LevelSettled(i)

\* C27: every task is in exactly one level and the levels hold nothing but
\* the tasks; every task outside the trailing overflow level has all its
\* blockers in strictly earlier levels; the level map gives each task the
\* zero-based index of the one level that contains it.
C27_Partition ==
    sched.pc = "planned" =>
        /\ \A t \in SchedTasks : Cardinality(LevelsOf(t)) = 1
        /\ UNION {Levels[i] : i \in 1..Len(Levels)} = SchedTasks
        /\ \A i \in 1..Len(Levels) : ~IsOverflow(i) => LevelSettled(i)
        /\ DOMAIN sched.task_level_map = SchedTasks
        /\ \A t \in SchedTasks : LevelsOf(t) = {sched.task_level_map[t] + 1}

C27_Witness ==
    /\ sched.pc = "planned"
    /\ Len(Levels) = 3
    /\ IsOverflow(3)
    /\ Cardinality(Levels[3]) = 1
    /\ \E t \in SchedTasks : sched.task_level_map[t] = 1 /\ sched.blockers[t] # {}

\* the keys reached from key k along blocked-by edges in one step or more
RECURSIVE ReachedFrom(_, _)
ReachedFrom(seen, n) ==
    IF n = 0 THEN seen
    ELSE ReachedFrom(seen \cup UNION {sched.blockers[t] : t \in seen \cap SchedTasks}, n - 1)
Reach(k) ==
    IF k \in SchedTasks THEN ReachedFrom(sched.blockers[k], Cardinality(SchedTasks))
    ELSE {}
\* on or behind a cycle, or depending on a key no task has
NeverPlaceable ==
    {t \in SchedTasks : \E k \in Reach(t) : k \notin SchedTasks \/ k \in Reach(k)}

\* C28: on every task list, cyclic or with blockers no task has, the levels
\* are computed; when some task can never be placed, the last level is
\* exactly the set of those tasks and no earlier level holds one; when
\* there is none, every level is settled and there is no overflow level.
C28_Overflow ==
    sched.pc = "planned" =>
        IF NeverPlaceable = {}
        THEN \A i \in 1..Len(Levels) : LevelSettled(i) /\ Levels[i] # {}
        ELSE /\ Len(Levels) >= 1
             /\ Levels[Len(Levels)] = NeverPlaceable
             /\ \A i \in 1..(Len(Levels) - 1) : LevelSettled(i) /\ Levels[i] # {}

\* a cycle of two tasks, a task behind it and no task that can be placed
C28_Witness ==
    /\ sched.pc = "planned"
    /\ Cardinality(SchedTasks) = 3
    /\ \A t \in SchedTasks : sched.blockers[t] \subseteq SchedTasks
    /\ \E t \in SchedTasks : t \notin Reach(t)
    /\ Levels = <<SchedTasks>>

\* a blocker no task has, next to two tasks that are placed
C28_WitnessMissing ==
    /\ sched.pc = "planned"
    /\ Len(Levels) = 3
    /\ \E t \in SchedTasks :
           /\ Levels[3] = {t}
           /\ sched.blockers[t] \cap SchedTasks = {}
           /\ sched.blockers[t] # {}

\* ---- task statuses and skip_task
\* every terminal task has had its scheduler call run to the end
AllCascaded == \A t \in SchedTasks : sched.status[t] \in Terminal => t \in sched.cascaded
AllTerminal == \A t \in SchedTasks : sched.status[t] \in Terminal

\* a task that is ready, or was ready and has been started or done, has
\* every blocker in a terminal state; the completion of the project is
\* signalled only when every task is terminal, and it is signalled once the
\* scheduler has been called for every terminal task and all are terminal
ReadyAndCompletion ==
    sched.pc = "running" =>
        /\ \A t \in SchedTasks :
               sched.status[t] \in {"ready", "in_progress", "done"} =>
                   \A b \in sched.blockers[t] : b \in SchedTasks /\ sched.status[b] \in Terminal
        /\ sched.project_completed => AllTerminal
        /\ (AllTerminal /\ AllCascaded) => sched.project_completed

C30_SkipTask ==
    [][\A project_id \in ProjectIds, task_id \in TaskKeys :
          skip_task(project_id, task_id) =>
              IF /\ task_id \in SchedTasks
                 /\ project_id = ThisProject
                 /\ sched.status[task_id] \notin {"done", "skipped", "in_progress"}
              THEN /\ sched'.response = "success"
                   /\ sched'.status[task_id] = "skipped"
                   /\ \/ sched' = Cascade([sched EXCEPT !.status[task_id] = "skipped",
                                                         !.response = "success"], task_id)
                      \/ sched' = [sched EXCEPT !.status[task_id] = "skipped",
                                                !.response = "success"]
              ELSE /\ sched'.response \in {"400", "404"}
                   /\ sched'.status = sched.status
                   /\ sched'.cascaded = sched.cascaded
                   /\ sched'.project_completed = sched.project_completed]_vars

\* a skip whose cascade failed: the last task is SKIPPED, the answer is
\* success and the project has not been signalled complete
C30_Witness ==
    /\ sched.pc = "running"
    /\ sched.response = "success"
    /\ AllTerminal
    /\ ~sched.project_completed
    /\ \E t \in SchedTasks : sched.status[t] = "skipped" /\ t \notin sched.cascaded

\* a refused skip of a task in progress
C30_WitnessRefused ==
    /\ sched.pc = "running"
    /\ sched.response = "400"
    /\ \E t \in SchedTasks : sched.status[t] = "in_progress"

\* ---- stop flag, silent runs, executor-made events
\* C34: while a worker is alive and the stop flag is set, no step clears the
\* flag: it stays set until the worker has terminated.
C34_FlagStaysSet ==
    [][(stop_flag /\ \E c \in Calls : Alive(c) /\ worker'[c] \notin {"none", "exited"})
          => stop_flag']_vars

\* C35: a run that started a worker and whose sequence ends has delivered at
\* least one event to the caller, from the worker or from run() itself.
C35_NeverSilent ==
    [][\A c \in Calls :
          (gen[c] \in {"finalwait", "abortwait"} /\ gen'[c] = "closed") =>
              (delivered[c] # <<>> \/ own_events[c] # {})]_vars

\* C36: once stop() has been called during a run, the worker of the run
\* makes no further provider resolution, rate-limiter call or provider
\* invocation.
C36_NoWorkAfterStop ==
    [][\A c \in Calls :
          (stop_flag /\ session_reset /\ Alive(c)) => trace'[c] = trace[c]]_vars

\* C37: every message event the caller of run() receives was produced by
\* the worker: run() yields no message event of its own.
C37_OnlyWorkerMessages == \A c \in Calls : "message" \notin own_events[c]

\* ---- _run_prompt: idle stall, repetition guard, early JSON, stop requests
\* C31: a phase run that ended on an idle stall ended normally with the
\* partial text exactly when the phase does not expect JSON and something
\* had been accumulated, and failed otherwise; either way the executor was
\* asked to stop.
C31_IdleStall ==
    /\ phase.pc = "partial" =>
           ~phase.expect_json /\ phase.output_parts > 0 /\ phase.stopped
    /\ phase.pc = "stalled" =>
           (phase.expect_json \/ phase.output_parts = 0) /\ phase.stopped

C31_Witness ==
    /\ phase.pc = "partial"
    /\ phase.output_parts = 2
    /\ phase.chunk_count > 2

C31_WitnessFails ==
    /\ phase.pc = "stalled"
    /\ phase.expect_json
    /\ phase.output_parts > 0

\* the normalized non-empty chunks among the accepted ones, and the last
\* recent_maxlen of them
NonEmptyNormalized ==
    SelectSeq([i \in 1..Len(stream.output_parts) |-> Normalize(stream.output_parts[i])],
              LAMBDA x : x # <<>>)
Retained ==
    LET n == Len(NonEmptyNormalized)
    IN IF n > recent_maxlen THEN SubSeq(NonEmptyNormalized, n - recent_maxlen + 1, n)
       ELSE NonEmptyNormalized
FewDistinct ==
    /\ Len(Retained) >= repeat_min_chunks
    /\ Cardinality({Retained[i] : i \in 1..Len(Retained)}) <= repeat_max_distinct

\* C32: the guard holds the last recent_maxlen normalized non-empty chunks;
\* a phase run it ended had at least repeat_min_chunks chunks retained, of at
\* most repeat_max_distinct distinct values, was asked to stop and returned
\* the text accumulated so far; a phase run still going on has fewer
\* chunks retained or more distinct values among them.
C32_RepetitionGuard ==
    /\ stream.pc \in {"top", "repetition", "returned"} =>
           stream.recent_norm_chunks = Retained
    /\ stream.pc = "repetition" =>
           /\ FewDistinct
           /\ Len(NonEmptyNormalized) >= repeat_min_chunks
           /\ stream.stopped
           /\ stream.result = Joined(stream.output_parts)
    /\ stream.pc = "top" => ~FewDistinct

\* the guard fires at the thirteenth chunk, when the third value has left
\* the retained chunks
C32_Witness ==
    /\ stream.pc = "repetition"
    /\ Len(stream.output_parts) = recent_maxlen + 1
    /\ Cardinality({NonEmptyNormalized[i] : i \in 1..Len(NonEmptyNormalized)}) = 3

\* eight accepted chunks, one of them blank: the guard has not fired
C32_WitnessBlank ==
    /\ stream.pc = "top"
    /\ Len(stream.output_parts) = repeat_min_chunks
    /\ \A i \in 1..Len(stream.output_parts) : stream.output_parts[i] \in {<<"a">>, <<" ">>}

RECURSIVE StringState(_, _)
\* whether the first n characters of the text end inside a string literal,
\* and whether the last of them is an escaping backslash
StringState(text, n) ==
    IF n = 0 THEN <<FALSE, FALSE>>
    ELSE LET s == StringState(text, n - 1)
             ch == text[n]
         IN IF s[1]
            THEN IF s[2] THEN <<TRUE, FALSE>>
                 ELSE IF ch = "\\" THEN <<TRUE, TRUE>>
                 ELSE IF ch = "\"" THEN <<FALSE, FALSE>>
                 ELSE <<TRUE, FALSE>>
            ELSE <<ch = "\"", FALSE>>

\* the character at index i lies inside a string literal that the text closes
InLiteral(text, i) ==
    /\ StringState(text, i - 1)[1]
    /\ \E j \in i..Len(text) : ~StringState(text, j)[1]

RECURSIVE DepthAfter(_, _)
\* the number of arrays open after the first n characters, brackets inside
\* string literals not counted
DepthAfter(text, n) ==
    IF n = 0 THEN 0
    ELSE LET d == DepthAfter(text, n - 1)
         IN IF StringState(text, n - 1)[1] THEN d
            ELSE IF text[n] = "[" THEN d + 1
            ELSE IF text[n] = "]" /\ d > 0 THEN d - 1
            ELSE d

\* the text from index s to index e is a top-level array that parses
TopLevelArray(text, s, e) ==
    /\ text[s] = "[" /\ text[e] = "]"
    /\ ~StringState(text, s - 1)[1]
    /\ DepthAfter(text, s - 1) = 0
    /\ json_loads(SubSeq(text, s, e))

\* C33: a phase run that expects a JSON array goes on while the joined text
\* holds no top-level array that parses, and the array it returns is a
\* top-level one: its brackets are not inside a string literal, and it is not
\* inside an array that is still open.
C33_FirstTopLevelArray ==
    LET text == Joined(stream.output_parts)
    IN stream.expect_json =>
          /\ stream.pc = "top" =>
                 ~\E s \in 1..Len(text) : \E e \in s..Len(text) : TopLevelArray(text, s, e)
          /\ stream.pc = "captured" =>
                 /\ ~InLiteral(text, stream.span.start)
                 /\ ~InLiteral(text, stream.span.end)
                 /\ TopLevelArray(text, stream.span.start, stream.span.end)

\* C38: a phase run that leaves the stream before its end (overall timeout,
\* idle stall, truncation, early capture of a JSON array) has asked the
\* executor to stop.
C38_StoppedBeforeEarlyExit ==
    phase.pc \in {"overall_timeout", "partial", "stalled", "truncated", "captured"} =>
        phase.stopped

\* C39: whether a phase run expects JSON is decided by which phase it is:
\* the task and team phases do, the research and PRD phases do not, whatever
\* the project description says; so only a research or PRD run is ever left
\* with the partial text after a stall.
C39_ExpectationByPhase ==
    phase.pc # "none" =>
        /\ phase.expect_json = (phase.name \in {"tasks", "team"})
        /\ phase.pc = "partial" => phase.name \in {"research", "prd"}

\* the task list of a returned plan was derived from the prose of the last
\* run, or is the fixed three-task plan
TasksDerived ==
    BothUnparsable /\ plan.pc = "returned" /\ plan.tasks # _fallback_tasks_from_context
TasksFixed ==
    BothUnparsable /\ plan.pc = "returned" /\ plan.tasks = _fallback_tasks_from_context

\* C40: the task_breakdown diagnostics of a returned plan (line 689 returns
\* the dict lines 604-622 filled) tell where the tasks came from: derived
\* tasks are recorded with derived_from_text true, the fixed plan with
\* fallback_used true, and both with the samples of the two attempts.
C40_DiagnosticsTellSource ==
    /\ TasksDerived =>
           /\ "derived_from_text" \in plan.task_breakdown.keys
           /\ plan.task_breakdown.derived_from_text
           /\ Len(plan.task_breakdown.attempts) = 2
    /\ TasksFixed =>
           /\ "fallback_used" \in plan.task_breakdown.keys
           /\ plan.task_breakdown.fallback_used
           /\ Len(plan.task_breakdown.attempts) = 2

====
